---- MODULE Spec2Model ----
(***************************************************************************)
(* MiniVSFS: the image formatter (Fresh version 2.1/mkfs_builder.c), the   *)
(* file adder (OS_Project_Update2.0/mkfs_adder.c) and the on-disk records  *)
(* they share.  An image is modelled block by block: the superblock, the   *)
(* two bitmaps (as the sets of their set bits), the inode table and the    *)
(* data blocks that were ever written (every other byte of the image is    *)
(* zero, as calloc/memset leave it).  The inspector                        *)
(* (OS_Project_Update2.0/minivsfs_ls.c) and the padded-superblock pair     *)
(* (OS_Project/mkfs_builder_skeleton.c, mkfs_adder_skeleton.c), which      *)
(* keeps free counters and updates the image in place, are modelled in     *)
(* sections of their own.                                                  *)
(*                                                                         *)
(* TLC integers are 32-bit signed, so a uint32_t checksum is kept as the   *)
(* tuple of its four bytes, least significant first (its little-endian     *)
(* layout on disk).  All other integer fields stay far below 2^31 within   *)
(* the accepted geometry (at most 1024 blocks, 512 inodes).                *)
(***************************************************************************)
EXTENDS Integers, Sequences, FiniteSets, TLC

\* ------------------------------------------------------------------------
\* Program constants
\* ------------------------------------------------------------------------
BS == 4096
INODE_SIZE == 128
ROOT_INO == 1
DIRECT_MAX == 12
DIRENT_SIZE == 64
NAME_MAX == 58
MAGIC == 1297503046
VERSION == 1
MODE_DIR == 16384
MODE_FILE == 32768
TYPE_FILE == 1
TYPE_DIR == 2
MIN_SIZE_KIB == 180
MAX_SIZE_KIB == 4096
MIN_INODES == 128
MAX_INODES == 512
SB_SIZE == 116

Byte == 0..255
Bytes4 == Byte \X Byte \X Byte \X Byte

\* ------------------------------------------------------------------------
\* Checksum engine: crc32_init / crc32 and the three finalizers
\* ------------------------------------------------------------------------
Bit(a, k) == (a \div (2^k)) % 2

\* a ^ b on 4-bit values, bit by bit
Xor4(a, b) ==
      ((Bit(a, 0) + Bit(b, 0)) % 2)
    + 2 * ((Bit(a, 1) + Bit(b, 1)) % 2)
    + 4 * ((Bit(a, 2) + Bit(b, 2)) % 2)
    + 8 * ((Bit(a, 3) + Bit(b, 3)) % 2)

\* the 16 x 16 table of Xor4, entry a * 16 + b + 1
XOR4_TAB == <<>> \o [k \in 1..256 |-> Xor4((k - 1) \div 16, (k - 1) % 16)]

\* a ^ b on uint8_t values
Xor8(a, b) ==
    XOR4_TAB[(a % 16) * 16 + (b % 16) + 1]
    + 16 * XOR4_TAB[(a \div 16) * 16 + (b \div 16) + 1]

\* a ^ b on uint32_t values
Xor32(a, b) ==
    <<Xor8(a[1], b[1]), Xor8(a[2], b[2]), Xor8(a[3], b[3]), Xor8(a[4], b[4])>>

\* c >> 1 on a uint32_t
Shr1(c) ==
    <<c[1] \div 2 + 128 * (c[2] % 2), c[2] \div 2 + 128 * (c[3] % 2),
      c[3] \div 2 + 128 * (c[4] % 2), c[4] \div 2>>

\* 0xEDB88320
CRC_POLY == <<32, 131, 184, 237>>

\* one round of crc32_init's inner loop: c = (c&1) ? (POLY ^ (c>>1)) : (c>>1)
CrcRound(c) ==
    IF c[1] % 2 = 1 THEN Xor32(CRC_POLY, Shr1(c)) ELSE Shr1(c)

\* crc32_init: entry i + 1 of CrcRoundsK is c after K rounds from c = i
CrcRounds0 == <<>> \o [i \in 1..256 |-> <<i - 1, 0, 0, 0>>]
CrcRounds1 == <<>> \o [i \in 1..256 |-> CrcRound(CrcRounds0[i])]
CrcRounds2 == <<>> \o [i \in 1..256 |-> CrcRound(CrcRounds1[i])]
CrcRounds3 == <<>> \o [i \in 1..256 |-> CrcRound(CrcRounds2[i])]
CrcRounds4 == <<>> \o [i \in 1..256 |-> CrcRound(CrcRounds3[i])]
CrcRounds5 == <<>> \o [i \in 1..256 |-> CrcRound(CrcRounds4[i])]
CrcRounds6 == <<>> \o [i \in 1..256 |-> CrcRound(CrcRounds5[i])]
CrcRounds7 == <<>> \o [i \in 1..256 |-> CrcRound(CrcRounds6[i])]
CRC32_TAB == <<>> \o [i \in 1..256 |-> CrcRound(CrcRounds7[i])]

\* one step of crc32's loop: c = CRC32_TAB[(c ^ p[i]) & 0xFF] ^ (c >> 8)
CrcStep(c, p) ==
    Xor32(CRC32_TAB[Xor8(c[1], p) + 1], <<c[2], c[3], c[4], 0>>)

\* crc32(data, n) for the byte sequence p: the loop is folded over p by halves
crc32[p \in Seq(Byte)] ==
    LET Fold[c \in Bytes4, lo \in 1..Len(p), hi \in 1..Len(p)] ==
            IF lo = hi THEN CrcStep(c, p[lo])
            ELSE Fold[Fold[c, lo, (lo + hi) \div 2], (lo + hi) \div 2 + 1, hi]
        c0 == <<255, 255, 255, 255>>
    IN  Xor32(IF Len(p) = 0 THEN c0 ELSE Fold[c0, 1, Len(p)], c0)

\* little-endian layout of the unsigned value v in a k-byte field (v < 2^31)
LE(v, k) == [i \in 1..k |-> IF i <= 4 THEN (v \div (256^(i - 1))) % 256 ELSE 0]

Zeros(k) == [i \in 1..k |-> 0]

\* A uint64_t byte count: the value hi * 2^44 + lo with lo < 2^31 (bits 31
\* to 43 are zero in every length the model uses).  In blocks of BS bytes
\* that is hi * 2^32 + lo / BS, so hi is what a cast of the block count to
\* uint32_t drops.
Bytes64(hi, lo) == [hi |-> hi, lo |-> lo]

\* little-endian layout of a Bytes64 value in its 8-byte field (hi < 2^12)
LE64(v) == LE(v.lo, 4) \o <<0, (v.hi % 16) * 16, v.hi \div 16, 0>>

\* ------------------------------------------------------------------------
\* On-disk records
\* ------------------------------------------------------------------------
\* superblock_t with every field zero
ZeroSb ==
    [magic |-> 0, version |-> 0, block_size |-> 0, total_blocks |-> 0,
     inode_count |-> 0, inode_bitmap_start |-> 0, inode_bitmap_blocks |-> 0,
     data_bitmap_start |-> 0, data_bitmap_blocks |-> 0,
     inode_table_start |-> 0, inode_table_blocks |-> 0,
     data_region_start |-> 0, data_region_blocks |-> 0,
     root_inode |-> 0, mtime_epoch |-> 0, flags |-> 0,
     checksum |-> <<0, 0, 0, 0>>]

\* the 112 bytes of the packed superblock_t that precede its checksum field
SbBytes(sb) ==
    LE(sb.magic, 4) \o LE(sb.version, 4) \o LE(sb.block_size, 4)
    \o LE(sb.total_blocks, 8) \o LE(sb.inode_count, 8)
    \o LE(sb.inode_bitmap_start, 8) \o LE(sb.inode_bitmap_blocks, 8)
    \o LE(sb.data_bitmap_start, 8) \o LE(sb.data_bitmap_blocks, 8)
    \o LE(sb.inode_table_start, 8) \o LE(sb.inode_table_blocks, 8)
    \o LE(sb.data_region_start, 8) \o LE(sb.data_region_blocks, 8)
    \o LE(sb.root_inode, 8) \o LE(sb.mtime_epoch, 8) \o LE(sb.flags, 4)

\* the checksum superblock_crc_finalize computes: the superblock with its
\* checksum zeroed, copied into a zeroed block, crc32 over BS - 4 bytes
SuperblockCrc(sb) == crc32[SbBytes(sb) \o Zeros(BS - 4 - (SB_SIZE - 4))]

\* superblock_crc_finalize taking the crc32 of the 112 bytes alone
superblock_crc_finalize_Unpadded(sb) == [sb EXCEPT !.checksum = crc32[SbBytes(sb)]]

superblock_crc_finalize(sb) == [sb EXCEPT !.checksum = SuperblockCrc(sb)]

\* inode_t with every field zero (memset(ino, 0, sizeof(*ino))); the
\* reserved_0..2, proj_id, uid16_gid16 and xattr_ptr fields are never
\* written by any of the programs and stay zero
ZeroInode ==
    [mode |-> 0, links |-> 0, uid |-> 0, gid |-> 0, size_bytes |-> Bytes64(0, 0),
     atime |-> 0, mtime |-> 0, ctime |-> 0,
     direct |-> [d \in 1..DIRECT_MAX |-> 0],
     inode_crc |-> <<0, 0, 0, 0>>]

\* the first 120 bytes of the packed inode_t
InodeBytes(ino) ==
    LE(ino.mode, 2) \o LE(ino.links, 2) \o LE(ino.uid, 4) \o LE(ino.gid, 4)
    \o LE64(ino.size_bytes) \o LE(ino.atime, 8) \o LE(ino.mtime, 8)
    \o LE(ino.ctime, 8)
    \o LE(ino.direct[1], 4) \o LE(ino.direct[2], 4) \o LE(ino.direct[3], 4)
    \o LE(ino.direct[4], 4) \o LE(ino.direct[5], 4) \o LE(ino.direct[6], 4)
    \o LE(ino.direct[7], 4) \o LE(ino.direct[8], 4) \o LE(ino.direct[9], 4)
    \o LE(ino.direct[10], 4) \o LE(ino.direct[11], 4) \o LE(ino.direct[12], 4)
    \o Zeros(12) \o Zeros(4) \o Zeros(4) \o Zeros(8)

\* inode_crc_finalize: crc32 of the first 120 bytes, stored widened to 64 bits
InodeCrc(ino) == crc32[InodeBytes(ino)]

\* inode_crc_finalize taking the checksum before the timestamps are in place
inode_crc_finalize_Early(ino) ==
    [ino EXCEPT !.inode_crc =
        crc32[InodeBytes([ino EXCEPT !.atime = 0, !.mtime = 0, !.ctime = 0])]]

inode_crc_finalize(ino) == [ino EXCEPT !.inode_crc = InodeCrc(ino)]

\* dirent64_t; name holds the bytes copied into the zeroed 58-byte field
\* (the rest of the field is zero)
ZeroDirent == [inode_no |-> 0, type |-> 0, name |-> <<>>, checksum |-> 0]

\* the first 63 bytes of the packed dirent64_t
DirentBytes(de) ==
    LE(de.inode_no, 4) \o <<de.type>> \o de.name \o Zeros(NAME_MAX - Len(de.name))

\* dirent_checksum_finalize's loop: x ^= p[i] over the bytes of p
Xor8Fold[p \in Seq(Byte)] ==
    LET Fold[x \in Byte, i \in 1..(Len(p) + 1)] ==
            IF i > Len(p) THEN x ELSE Fold[Xor8(x, p[i]), i + 1]
    IN  Fold[0, 1]

dirent_checksum_finalize(de) == [de EXCEPT !.checksum = Xor8Fold[DirentBytes(de)]]

\* ------------------------------------------------------------------------
\* Images
\* ------------------------------------------------------------------------
\* A data-region block: the bytes fread put there after memset(blk, 0, BS)
\* (n bytes of source src from offset off; src = 0, n = 0 for none) and the
\* 64-byte slots that were overwritten by a directory entry.
ZeroBlock == [src |-> 0, off |-> 0, n |-> 0, ents |-> <<>>]

\* An image file: its length is nblocks * BS + tail bytes.  ibmap and dbmap
\* are the sets of set bits of blocks 1 and 2; itbl maps the inode indices
\* that were written to their records, blocks the absolute numbers of the
\* data blocks that were written to their contents; everything else is zero.
NoFile ==
    [present |-> FALSE, nblocks |-> 0, tail |-> 0, sb |-> ZeroSb,
     ibmap |-> {}, dbmap |-> {}, itbl |-> <<>>, blocks |-> <<>>]

ItblAt(img, i) == IF i \in DOMAIN img.itbl THEN img.itbl[i] ELSE ZeroInode
BlockAt(img, b) == IF b \in DOMAIN img.blocks THEN img.blocks[b] ELSE ZeroBlock

\* set_bit with the bit index counted from 1
set_bit_OneBased(bmap, idx) == bmap \cup {idx + 1}

\* set_bit(bmap, idx)
set_bit(bmap, idx) == bmap \cup {idx}

\* test_bit(bmap, idx)
test_bit(bmap, idx) == idx \in bmap

\* f with f[k] = v
Put(f, k, v) == (k :> v) @@ f

\* PutDirent clearing the rest of the block first
PutDirent_Fresh(blk, i, de) == [blk EXCEPT !.ents = Put(<<>>, i, de), !.n = 0]

\* memcpy(blk + i * sizeof(dirent64_t), &de, sizeof(de))
PutDirent(blk, i, de) == [blk EXCEPT !.ents = Put(blk.ents, i, de)]

\* the first w blocks of img, as fwrite leaves the file when it stops after
\* w blocks (the whole image for w = img.nblocks)
FirstBlocks(img, w) ==
    [present |-> TRUE, nblocks |-> w, tail |-> 0,
     sb |-> IF w >= 1 THEN img.sb ELSE ZeroSb,
     ibmap |-> IF w >= 2 THEN img.ibmap ELSE {},
     dbmap |-> IF w >= 3 THEN img.dbmap ELSE {},
     itbl |-> [i \in {j \in DOMAIN img.itbl :
                        img.sb.inode_table_start + (j * INODE_SIZE) \div BS < w}
                 |-> img.itbl[i]],
     blocks |-> [b \in {c \in DOMAIN img.blocks : c < w} |-> img.blocks[b]]]

\* ------------------------------------------------------------------------
\* mkfs_builder: parse_cli and main
\* ------------------------------------------------------------------------
\* CliAccepted without the lower bound on --size-kib
CliAccepted_NoLowerBound(size_kib, inodes) ==
    /\ ~(size_kib > MAX_SIZE_KIB \/ size_kib % 4 # 0)
    /\ ~(inodes < MIN_INODES \/ inodes > MAX_INODES)

\* CliAccepted without the upper bounds
CliAccepted_NoUpperBound(size_kib, inodes) ==
    /\ ~(size_kib < MIN_SIZE_KIB \/ size_kib % 4 # 0)
    /\ ~(inodes < MIN_INODES)

\* parse_cli's range checks on --size-kib and --inodes
CliAccepted(size_kib, inodes) ==
    /\ ~(size_kib < MIN_SIZE_KIB \/ size_kib > MAX_SIZE_KIB \/ size_kib % 4 # 0)
    /\ ~(inodes < MIN_INODES \/ inodes > MAX_INODES)

TotalBlocks(size_kib) == (size_kib * 1024) \div BS
InodesPerBlk == BS \div INODE_SIZE

\* InodeTblBlks rounding down
InodeTblBlks_Floor(inodes) == inodes \div InodesPerBlk
InodeTblBlks(inodes) == (inodes + InodesPerBlk - 1) \div InodesPerBlk

\* the check that makes main return 3 ("Image too small")
TooSmall(size_kib, inodes) ==
    TotalBlocks(size_kib) < 3 + InodeTblBlks(inodes) + 1

\* the superblock main fills in, before its checksum is computed
BuildSb(size_kib, inodes, now) ==
    [magic |-> MAGIC, version |-> VERSION, block_size |-> BS,
     total_blocks |-> TotalBlocks(size_kib), inode_count |-> inodes,
     inode_bitmap_start |-> 1, inode_bitmap_blocks |-> 1,
     data_bitmap_start |-> 2, data_bitmap_blocks |-> 1,
     inode_table_start |-> 3, inode_table_blocks |-> InodeTblBlks(inodes),
     data_region_start |-> 3 + InodeTblBlks(inodes),
     data_region_blocks |-> TotalBlocks(size_kib) - (3 + InodeTblBlks(inodes)),
     root_inode |-> ROOT_INO, mtime_epoch |-> now, flags |-> 0,
     checksum |-> <<0, 0, 0, 0>>]

\* BuildRoot counting one link only
BuildRoot_OneLink(data_region_start, now) ==
    inode_crc_finalize(
        [ZeroInode EXCEPT !.mode = MODE_DIR, !.links = 1, !.uid = 0, !.gid = 0,
                          !.atime = now, !.mtime = now, !.ctime = now,
                          !.size_bytes = Bytes64(0, 2 * DIRENT_SIZE),
                          !.direct[1] = data_region_start + 0])

\* the root inode main builds
BuildRoot(data_region_start, now) ==
    inode_crc_finalize(
        [ZeroInode EXCEPT !.mode = MODE_DIR, !.links = 2, !.uid = 0, !.gid = 0,
                          !.atime = now, !.mtime = now, !.ctime = now,
                          !.size_bytes = Bytes64(0, 2 * DIRENT_SIZE),
                          !.direct[1] = data_region_start + 0])

\* the entries "." and ".."
DotEntry ==
    dirent_checksum_finalize(
        [ZeroDirent EXCEPT !.inode_no = ROOT_INO, !.type = TYPE_DIR, !.name = <<46>>])
DotDotEntry ==
    dirent_checksum_finalize(
        [ZeroDirent EXCEPT !.inode_no = ROOT_INO, !.type = TYPE_DIR, !.name = <<46, 46>>])

\* the image main assembles in memory for an accepted geometry
BuildImage(size_kib, inodes, now_sb, now_root) ==
    LET root == BuildRoot(3 + InodeTblBlks(inodes), now_root)
    IN  [present |-> TRUE, nblocks |-> TotalBlocks(size_kib), tail |-> 0,
         sb |-> superblock_crc_finalize(BuildSb(size_kib, inodes, now_sb)),
         ibmap |-> set_bit({}, 0),
         dbmap |-> set_bit({}, 0),
         itbl |-> Put(<<>>, 0, root),
         blocks |-> Put(<<>>, root.direct[1],
                        PutDirent(PutDirent(ZeroBlock, 0, DotEntry), 1, DotDotEntry))]

\* ------------------------------------------------------------------------
\* mkfs_adder: main
\* ------------------------------------------------------------------------
\* byte k of the source file id (any fixed contents; the id tells sources apart)
SrcByte(id, k) == (id * 37 + k * 11 + k \div 256) % 256

\* byte k of what memset + fread left in blk
DataByte(blk, k) == IF k < blk.n THEN SrcByte(blk.src, blk.off + k) ELSE 0

\* the 64 bytes of a dirent64_t
EntryBytes(de) == DirentBytes(de) \o <<de.checksum>>

\* byte k of the block blk
BlockByte(blk, k) ==
    IF (k \div DIRENT_SIZE) \in DOMAIN blk.ents
    THEN EntryBytes(blk.ents[k \div DIRENT_SIZE])[(k % DIRENT_SIZE) + 1]
    ELSE DataByte(blk, k)

\* SlotFree looking at the first slot of a block only
SlotFree_SlotZero(blk, i) ==
    /\ i = 0
    /\ IF i \in DOMAIN blk.ents
       THEN blk.ents[i].inode_no = 0
       ELSE \A j \in 0..3 : DataByte(blk, i * DIRENT_SIZE + j) = 0

\* e->inode_no == 0 for the entry e in slot i of blk
SlotFree(blk, i) ==
    IF i \in DOMAIN blk.ents
    THEN blk.ents[i].inode_no = 0
    ELSE \A j \in 0..3 : DataByte(blk, i * DIRENT_SIZE + j) = 0

\* base_name: what follows the last '/' of path
base_name(path) ==
    LET slashes == {i \in 1..Len(path) : path[i] = 47}
    IN  IF slashes = {} THEN path
        ELSE SubSeq(path, (CHOOSE i \in slashes : \A j \in slashes : j <= i) + 1, Len(path))

\* namebuf: the first min(strlen(base), 58) bytes of base
NameBuf(base) == IF Len(base) > NAME_MAX THEN SubSeq(base, 1, NAME_MAX) ELSE base

SetMin(S) == CHOOSE x \in S : \A y \in S : x <= y

\* FirstFit scanning from the top: the highest free indices, descending
FirstFit_FromTop(bmap, limit, want) ==
    LET SetMax(S) == CHOOSE x \in S : \A y \in S : y <= x
        Scan[found \in Seq(Nat), free \in SUBSET (0..(limit - 1))] ==
            IF Len(found) >= want \/ free = {} THEN found
            ELSE Scan[Append(found, SetMax(free)), free \ {SetMax(free)}]
    IN  Scan[<<>>, {i \in 0..(limit - 1) : ~test_bit(bmap, i)}]

\* FirstFit with the loop bound included (i <= limit)
FirstFit_Inclusive(bmap, limit, want) ==
    LET Scan[found \in Seq(Nat), free \in SUBSET (0..limit)] ==
            IF Len(found) >= want \/ free = {} THEN found
            ELSE Scan[Append(found, SetMin(free)), free \ {SetMin(free)}]
    IN  Scan[<<>>, {i \in 0..limit : ~test_bit(bmap, i)}]

\* the first-fit loops: the lowest `want` indices below limit whose bit is
\* clear in bmap, in ascending order (fewer when fewer are free)
FirstFit(bmap, limit, want) ==
    LET Scan[found \in Seq(Nat), free \in SUBSET (0..(limit - 1))] ==
            IF Len(found) >= want \/ free = {} THEN found
            ELSE Scan[Append(found, SetMin(free)), free \ {SetMin(free)}]
    IN  Scan[<<>>, {i \in 0..(limit - 1) : ~test_bit(bmap, i)}]

\* NeedBlocks giving every file a block
NeedBlocks_AtLeastOne(fsize) == fsize.lo \div BS + 1

\* need_blocks = (uint32_t)((fsize + BS - 1) / BS): the quotient is
\* fsize.hi * 2^32 + (fsize.lo + BS - 1) / BS, of which the cast keeps the
\* low 32 bits
NeedBlocks(fsize) == (fsize.lo + BS - 1) \div BS

\* BuildInode storing the clock in uid as well
BuildInode_ClockAsUid(sb, fsize, db_idxs, now) ==
    inode_crc_finalize(
        [ZeroInode EXCEPT !.mode = MODE_FILE, !.links = 1, !.uid = now, !.gid = 0,
                          !.size_bytes = fsize,
                          !.atime = now, !.mtime = now, !.ctime = now,
                          !.direct = [d \in 1..DIRECT_MAX |->
                                        IF d <= Len(db_idxs)
                                        THEN sb.data_region_start + db_idxs[d]
                                        ELSE 0]])

\* BuildInode storing the first block found in every pointer it fills
BuildInode_Repeat(sb, fsize, db_idxs, now) ==
    inode_crc_finalize(
        [ZeroInode EXCEPT !.mode = MODE_FILE, !.links = 1, !.uid = 0, !.gid = 0,
                          !.size_bytes = fsize,
                          !.atime = now, !.mtime = now, !.ctime = now,
                          !.direct = [d \in 1..DIRECT_MAX |->
                                        IF d <= Len(db_idxs)
                                        THEN sb.data_region_start + db_idxs[1]
                                        ELSE 0]])

\* the new file's inode
BuildInode(sb, fsize, db_idxs, now) ==
    inode_crc_finalize(
        [ZeroInode EXCEPT !.mode = MODE_FILE, !.links = 1, !.uid = 0, !.gid = 0,
                          !.size_bytes = fsize,
                          !.atime = now, !.mtime = now, !.ctime = now,
                          !.direct = [d \in 1..DIRECT_MAX |->
                                        IF d <= Len(db_idxs)
                                        THEN sb.data_region_start + db_idxs[d]
                                        ELSE 0]])

\* ToRead with the last block's count taken as fsize % BS
ToRead_Mod(fsize, need, i) == IF i + 1 < need THEN BS ELSE fsize.lo % BS

\* toread for block i (0-based) of need blocks (the sources with blocks to
\* read have fsize.hi = 0)
ToRead(fsize, need, i) == IF i + 1 < need THEN BS ELSE fsize.lo - i * BS

\* the blocks after the "Write file data" loop: block direct[i] is zeroed
\* and receives the next toread bytes of the source
WriteFileData(blocks, ino, src, need) ==
    [b \in DOMAIN blocks \cup {ino.direct[d] : d \in 1..need} |->
        IF \E d \in 1..need : ino.direct[d] = b
        THEN LET i == (CHOOSE d \in 1..need : ino.direct[d] = b) - 1
             IN  [src |-> src.id, off |-> i * BS,
                  n |-> ToRead(src.size, need, i), ents |-> <<>>]
        ELSE blocks[b]]

\* the directory entry for the new file
NewEntry(new_ino_no, path) ==
    dirent_checksum_finalize(
        [ZeroDirent EXCEPT !.inode_no = new_ino_no, !.type = TYPE_FILE,
                           !.name = NameBuf(base_name(path))])

\* TouchRoot leaving the link count alone
TouchRoot_KeepLinks(root, now) ==
    inode_crc_finalize(
        [root EXCEPT !.size_bytes.lo = @ + DIRENT_SIZE, !.mtime = now, !.ctime = now])

\* TouchRoot leaving the size alone
TouchRoot_KeepSize(root, now) ==
    inode_crc_finalize(
        [root EXCEPT !.mtime = now, !.ctime = now, !.links = @ + 1])

\* the root's metadata update that follows the placement of an entry
TouchRoot(root, now) ==
    inode_crc_finalize(
        [root EXCEPT !.size_bytes.lo = @ + DIRENT_SIZE, !.mtime = now, !.ctime = now,
                     !.links = @ + 1])

\* RootScanLen visiting the first root block only
RootScanLen_FirstOnly(root) == IF root.direct[1] = 0 THEN 0 ELSE 1

\* number of root blocks the placement loop visits: it stops at the first
\* zero direct pointer
RootScanLen(root) ==
    IF \A d \in 1..DIRECT_MAX : root.direct[d] # 0 THEN DIRECT_MAX
    ELSE SetMin({d \in 1..DIRECT_MAX : root.direct[d] = 0}) - 1

Result(rc, err, img, ino_no) == [rc |-> rc, err |-> err, img |-> img, ino |-> ino_no]

\* "Add directory entry into root" and what follows it up to the write:
\* mem is the image with the new inode, its bits and its data in place
LinkIntoRoot(mem, src, new_ino_no, now) ==
    LET sb == mem.sb
        root == ItblAt(mem, 0)
        ne == NewEntry(new_ino_no, src.path)
        slots == 0..(BS \div DIRENT_SIZE - 1)
        hits == {d \in 1..RootScanLen(root) :
                    \E i \in slots : SlotFree(BlockAt(mem, root.direct[d]), i)}
    IN  IF hits # {}
        THEN LET d == SetMin(hits)
                 blk == BlockAt(mem, root.direct[d])
                 i == SetMin({k \in slots : SlotFree(blk, k)})
             IN  Result(0, "",
                        [mem EXCEPT !.blocks = Put(@, root.direct[d], PutDirent(blk, i, ne)),
                                    !.itbl = Put(@, 0, TouchRoot(root, now))],
                        new_ino_no)
        ELSE IF \A d \in 1..DIRECT_MAX : root.direct[d] # 0
        THEN Result(7, "Root directory has no free direct pointer to extend", mem, 0)
        ELSE LET slot == SetMin({d \in 1..DIRECT_MAX : root.direct[d] = 0})
                 free == FirstFit(mem.dbmap, sb.data_region_blocks, 1)
             IN  IF free = <<>>
                 THEN Result(7, "No free data blocks to extend root directory", mem, 0)
                 ELSE LET abs == sb.data_region_start + free[1]
                      IN  Result(0, "",
                                 [mem EXCEPT
                                    !.dbmap = set_bit(@, free[1]),
                                    !.blocks = Put(@, abs, PutDirent(ZeroBlock, 0, ne)),
                                    !.itbl = Put(@, 0,
                                        TouchRoot([root EXCEPT !.direct[slot] = abs], now))],
                                 new_ino_no)

\* NotMiniVSFS looking at the magic number and the block size only
NotMiniVSFS_NoVersion(sb) == sb.magic # MAGIC \/ sb.block_size # BS

\* the first superblock check of main
NotMiniVSFS(sb) == sb.magic # MAGIC \/ sb.version # VERSION \/ sb.block_size # BS

\* main from the superblock checks to the end of the in-memory update, for
\* an image of whole blocks with at least the superblock block.  src.kind
\* is what stat finds at --file, readable whether fopen/fread deliver the
\* bytes.  The result is the exit code so far (0: go on to write the
\* output), the image in memory and the new inode number.
AddInMemory(img, src, readable, now_ino, now_root) ==
    LET sb == img.sb
        need == NeedBlocks(src.size)
        inos == FirstFit(img.ibmap, sb.inode_count, 1)
        db_idxs == FirstFit(img.dbmap, sb.data_region_blocks, need)
    IN  IF NotMiniVSFS(sb)
        THEN Result(3, "Not a MiniVSFS image", img, 0)
        ELSE IF sb.total_blocks # img.nblocks
        THEN Result(3, "Superblock total_blocks mismatch", img, 0)
        ELSE IF src.kind # "regular"
        THEN Result(4, "--file must be a regular file", img, 0)
        ELSE IF need > DIRECT_MAX
        THEN Result(5, "File too large for 12 direct blocks", img, 0)
        ELSE IF inos = <<>>
        THEN Result(6, "No free inodes", img, 0)
        ELSE IF need > 0 /\ Len(db_idxs) < need
        THEN Result(6, "Not enough free data blocks", img, 0)
        ELSE LET new_ino_idx == inos[1]
                 ino == BuildInode(sb, src.size, db_idxs, now_ino)
                 mem == [img EXCEPT
                            !.ibmap = set_bit(@, new_ino_idx),
                            !.dbmap = @ \cup {db_idxs[k] : k \in 1..need},
                            !.itbl = Put(@, new_ino_idx, ino),
                            !.blocks = WriteFileData(@, ino, src, need)]
             IN  IF need > 0 /\ ~readable
                 THEN Result(4, "read --file", mem, 0)
                 ELSE LinkIntoRoot(mem, src, new_ino_idx + 1, now_root)

\* ------------------------------------------------------------------------
\* minivsfs_ls: main
\* ------------------------------------------------------------------------
\* the 32-bit little-endian value at offset k of blk
U32At(blk, k) ==
    BlockByte(blk, k) + 256 * BlockByte(blk, k + 1)
    + 65536 * BlockByte(blk, k + 2) + 16777216 * BlockByte(blk, k + 3)

\* de.name as "%.*s" with precision 58 prints it: the bytes of the name
\* field of entry i up to its first zero byte
PrintedName(blk, i) ==
    LET at(n) == BlockByte(blk, i * DIRENT_SIZE + 5 + n)
        z == {n \in 0..(NAME_MAX - 1) : at(n) = 0}
        len == IF z = {} THEN NAME_MAX ELSE SetMin(z)
    IN  [n \in 1..len |-> at(n - 1)]

Listing(rc, sb, root, entries) ==
    [rc |-> rc, blocks |-> sb.total_blocks, inodes |-> sb.inode_count,
     links |-> root.links, size |-> root.size_bytes, first |-> root.direct[1],
     entries |-> entries]

\* what minivsfs_ls prints for the file f and its exit code: the superblock
\* summary, the root's links, size and first block, and one line (slot,
\* inode number, type, name) per entry it finds
minivsfs_ls(f) ==
    IF ~f.present \/ f.nblocks * BS + f.tail < SB_SIZE
    THEN Listing(1, ZeroSb, ZeroInode, {})
    ELSE IF f.sb.magic # MAGIC \/ f.sb.block_size # BS
    THEN Listing(2, ZeroSb, ZeroInode, {})
    ELSE IF f.sb.inode_table_start >= f.nblocks
    THEN Listing(3, f.sb, ZeroInode, {})
    ELSE LET ino == ItblAt(f, 0)
             blk == BlockAt(f, ino.direct[1])
         IN  IF ino.direct[1] = 0 \/ ino.direct[1] >= f.nblocks
             THEN Listing(0, f.sb, ino, {})
             ELSE Listing(0, f.sb, ino,
                      {[slot |-> i, ino |-> U32At(blk, i * DIRENT_SIZE),
                        type |-> BlockByte(blk, i * DIRENT_SIZE + 4),
                        name |-> PrintedName(blk, i)] :
                       i \in {k \in 0..(BS \div DIRENT_SIZE - 1) :
                                U32At(blk, k * DIRENT_SIZE) # 0}})

\* ------------------------------------------------------------------------
\* Bounds of the exploration
\* ------------------------------------------------------------------------
\* the clock's first value, and for how many seconds it is followed
T0 == 1700000000
MaxTick == 1

\* --size-kib / --inodes pairs mkfs_builder is run with
Geoms == {<<180, 160>>, <<1024, 128>>}

\* The files offered to mkfs_adder, in the order they are offered: a run may
\* add the next file of the list or go straight to the last one, an empty
\* file that is then added over and over.  kind is what stat finds; the
\* second file is a sparse file of 2^44 bytes.
Workload ==
    << [id |-> 1, path |-> <<100, 47, 110, 111, 116, 101, 115>>, size |-> Bytes64(0, 5000), kind |-> "regular"],
       [id |-> 9, path |-> <<115, 112, 97, 114, 115, 101>>, size |-> Bytes64(1, 0), kind |-> "regular"],
       [id |-> 2, path |-> <<104, 117, 103, 101>>, size |-> Bytes64(0, 12 * BS + 1), kind |-> "regular"],
       [id |-> 3, path |-> <<100, 47, 115, 117, 98>>, size |-> Bytes64(0, 0), kind |-> "directory"],
       [id |-> 4, path |-> <<97>>, size |-> Bytes64(0, 12 * BS), kind |-> "regular"],
       [id |-> 5, path |-> <<98>>, size |-> Bytes64(0, 12 * BS), kind |-> "regular"],
       [id |-> 6, path |-> <<99>>, size |-> Bytes64(0, 12 * BS), kind |-> "regular"],
       [id |-> 7, path |-> [i \in 1..60 |-> 102], size |-> Bytes64(0, 10 * BS), kind |-> "regular"],
       [id |-> 8, path |-> <<122>>, size |-> Bytes64(0, 0), kind |-> "regular"] >>

\* ------------------------------------------------------------------------
\* State
\* ------------------------------------------------------------------------
IMG == "a.img"
OUT == "b.img"
Paths == {IMG, OUT}

VARIABLES
    disk,     \* the files at the two image paths
    clock,    \* what time(NULL) returns
    cursor,   \* how many files of Workload were offered (the last one repeats)
    last      \* the last run: program, arguments, exit code, diagnostic

vars == <<disk, clock, cursor, last>>

Run(op, args, rc, err, ino) ==
    [op |-> op, args |-> args, rc |-> rc, err |-> err, ino |-> ino]

Init ==
    /\ disk = [p \in Paths |-> NoFile]
    /\ clock = T0
    /\ cursor = 0
    /\ last = Run("none", <<>>, 0, "", 0)

\* mkfs_builder --image a.img --size-kib size_kib --inodes inodes, with
\* every outcome of the final fopen/fwrite: the open fails, fwrite stops
\* after wrote blocks, or the whole image is written
Format(size_kib, inodes) ==
    /\ last.op = "none"
    /\ UNCHANGED <<clock, cursor>>
    /\ IF ~CliAccepted(size_kib, inodes)
       THEN /\ last' = Run("format", <<size_kib, inodes>>, 2, "cli", 0)
            /\ UNCHANGED disk
       ELSE IF TooSmall(size_kib, inodes)
       THEN /\ last' = Run("format", <<size_kib, inodes>>, 3, "Image too small", 0)
            /\ UNCHANGED disk
       ELSE LET img == BuildImage(size_kib, inodes, clock, clock)
            IN  \/ /\ last' = Run("format", <<size_kib, inodes>>, 5, "fopen", 0)
                   /\ UNCHANGED disk
                \/ \E wrote \in {0, img.nblocks - 1} :
                      /\ disk' = [disk EXCEPT ![IMG] = FirstBlocks(img, wrote)]
                      /\ last' = Run("format", <<size_kib, inodes>>, 6, "Short write", 0)
                \/ /\ disk' = [disk EXCEPT ![IMG] = img]
                   /\ last' = Run("format", <<size_kib, inodes>>, 0, "", 0)

\* the runs of mkfs_builder on the pairs of S
FormatFrom(S) == \E g \in S : Format(g[1], g[2])

\* a second passes between mkfs_builder and the first mkfs_adder run
Tick ==
    /\ last.op = "format"
    /\ clock < T0 + MaxTick
    /\ clock' = clock + 1
    /\ last' = Run("tick", <<>>, 0, "", 0)
    /\ UNCHANGED <<disk, cursor>>

\* Someone edits the freshly formatted image file: one bit of the stored
\* superblock checksum or of a field it covers is flipped, a validated
\* field is overwritten, the file loses its last byte, or the root directory
\* is given twelve blocks with every slot filled in.
TamperKinds ==
    {"checksum", "flags", "magic", "version", "block_size", "total_blocks", "truncate",
     "full_root"}

Tampered(f, kind) ==
    CASE kind = "checksum" ->
            [f EXCEPT !.sb.checksum[1] = Xor8(@, 1)]
      [] kind = "flags" -> [f EXCEPT !.sb.flags = 1 - @]
      [] kind = "magic" -> [f EXCEPT !.sb.magic = @ + 1]
      [] kind = "version" -> [f EXCEPT !.sb.version = @ + 1]
      [] kind = "block_size" -> [f EXCEPT !.sb.block_size = @ \div 2]
      [] kind = "total_blocks" -> [f EXCEPT !.sb.total_blocks = @ + 1]
      [] kind = "truncate" ->
            [FirstBlocks(f, f.nblocks - 1) EXCEPT !.tail = BS - 1]
      [] kind = "full_root" ->
            [f EXCEPT
                !.dbmap = 0..(DIRECT_MAX - 1),
                !.itbl = Put(@, 0, [ItblAt(f, 0) EXCEPT
                            !.direct = [d \in 1..DIRECT_MAX |-> f.sb.data_region_start + d - 1],
                            !.size_bytes = Bytes64(0, DIRECT_MAX * BS)]),
                !.blocks = [b \in {f.sb.data_region_start + d - 1 : d \in 1..DIRECT_MAX} |->
                              [ZeroBlock EXCEPT !.ents =
                                  [i \in 0..(BS \div DIRENT_SIZE - 1) |-> DotEntry]]]]

Tamper(kind) ==
    /\ last.op = "format"
    /\ disk[IMG].present
    /\ disk[IMG].nblocks >= 1
    /\ disk' = [disk EXCEPT ![IMG] = Tampered(@, kind)]
    /\ last' = Run("tamper", <<kind>>, 0, "", 0)
    /\ UNCHANGED <<clock, cursor>>

\* the file offered next: the next one of the list; a run that has added
\* none yet may go straight to the last one, which repeats
NextFiles ==
    {IF cursor < Len(Workload) THEN cursor + 1 ELSE cursor}
    \cup (IF cursor = 0 THEN {Len(Workload)} ELSE {})

\* How a run of mkfs_adder can go besides its arguments: readable, whether
\* fopen/fread of --file deliver its bytes; out, the --output path; wio, how
\* the final fopen/fwrite of the output go.
Smooth == [readable |-> TRUE, out |-> IMG, wio |-> "ok"]
AddVariants ==
    {Smooth,
     [Smooth EXCEPT !.readable = FALSE],
     [Smooth EXCEPT !.out = OUT],
     [Smooth EXCEPT !.wio = "open_fail"],
     [Smooth EXCEPT !.wio = "short"],
     [Smooth EXCEPT !.out = OUT, !.wio = "short"]}

\* what a run of mkfs_adder leaves: its exit code and diagnostic, the inode
\* number it reports, and whether it wrote img to the --output path
Outcome(rc, err, ino, wrote, img) ==
    [rc |-> rc, err |-> err, ino |-> ino, wrote |-> wrote, img |-> img]

\* Abort with the buffer written to the output path before the return
Abort_Flush(mem, rc, err) == Outcome(rc, err, 0, TRUE, mem)

\* an error return of main: the buffer mem is freed and nothing is written
Abort(mem, rc, err) == Outcome(rc, err, 0, FALSE, NoFile)

\* main: the outcomes of a run on the input file f with --file src, going
\* the way v
AdderMain(f, src, v, now) ==
    IF ~f.present
    THEN {Abort(NoFile, 1, "fopen input")}
    ELSE IF f.tail # 0
    THEN {Abort(f, 1, "Invalid image (size not multiple of block size)")}
    ELSE IF f.nblocks = 0
    THEN \* read_entire calls malloc(0): where that returns NULL the run ends
         \* with "Failed to read input image"; otherwise sb points at a
         \* zero-byte allocation and the reads of its fields are out of
         \* bounds (diagnostic "out of bounds" here): the checks fail on
         \* what is found there or the process is killed
         {Abort(f, 1, "Failed to read input image")}
         \cup {Abort(f, rc, "out of bounds") : rc \in {3, 139}}
    ELSE LET r == AddInMemory(f, src, v.readable, now, now)
         IN  IF r.rc # 0
             THEN {Abort(r.img, r.rc, r.err)}
             ELSE IF v.wio = "open_fail"
             THEN {Abort(r.img, 1, "fopen output")}
             ELSE IF v.wio = "short"
             THEN {Outcome(1, "Short write on output image", 0, TRUE,
                           FirstBlocks(r.img, wrote)) : wrote \in {0, r.img.nblocks - 1}}
             ELSE {Outcome(0, "", r.ino, TRUE, r.img)}

\* the diagnostics of the failures that come from the environment of a run
EnvErrors == {"read --file", "fopen output", "Short write on output image"}

\* mkfs_adder --input a.img --output v.out --file Workload[j].path.  The
\* failures of the environment and the second output path are explored for
\* the files before the last one; the session moves on to the next file
\* unless the run failed on its environment, and a run that wrote the
\* second path ends it.
AddFile(j, v) ==
    /\ last.op # "none"
    /\ ~disk[OUT].present
    /\ j \in NextFiles
    /\ j = Len(Workload) => v = Smooth
    /\ UNCHANGED clock
    /\ \E o \in AdderMain(disk[IMG], Workload[j], v, clock) :
          /\ last' = Run("add", <<j, v.out>>, o.rc, o.err, o.ino)
          /\ disk' = IF o.wrote THEN [disk EXCEPT ![v.out] = o.img] ELSE disk
          /\ cursor' = IF o.err \in EnvErrors THEN cursor ELSE j

Next ==
    \/ FormatFrom(Geoms)
    \/ Tick
    \/ \E kind \in TamperKinds : Tamper(kind)
    \/ \E j \in 1..Len(Workload), v \in AddVariants : AddFile(j, v)

Spec == Init /\ [][Next]_vars

\* mkfs_builder followed by runs of mkfs_adder only: nobody edits the image
NextUntampered ==
    \/ FormatFrom(Geoms)
    \/ Tick
    \/ \E j \in 1..Len(Workload), v \in AddVariants : AddFile(j, v)

SpecUntampered == Init /\ [][NextUntampered]_vars

\* mkfs_builder alone, over a wider choice of arguments
CliSizes == {16, 176, 179, 180, 182, 184, 1024, 2048, 4092, 4096, 4100}
CliInodes == {0, 127, 128, 129, 160, 161, 512, 513}

NextFormat == FormatFrom(CliSizes \X CliInodes)

SpecFormat == Init /\ [][NextFormat]_vars

\* ------------------------------------------------------------------------
\* The padded-superblock variant: OS_Project/mkfs_builder_skeleton.c and
\* OS_Project/mkfs_adder_skeleton.c
\* ------------------------------------------------------------------------
\* This pair keeps a 4096-byte superblock with free counters, puts the root
\* in inode_table[ROOT_INO] and updates the image in place through one
\* "r+b" stream.  Neither program looks at the result of fwrite or fread:
\* the model takes the transfers to go through.

\* SUPERBLOCK_MAGIC 0x53465356696e694d as its eight bytes on disk
SUPERBLOCK_MAGIC == <<77, 105, 110, 105, 86, 83, 70, 83>>

\* mode 0100644 of a file, 040755 of the root
SK_MODE_FILE == 33188
SK_MODE_DIR == 16877

\* num_blocks and num_inodes of mkfs_builder_skeleton's main
SK_NUM_BLOCKS == 1024
SK_NUM_INODES == 128

\* the fields of the skeleton's superblock_t before its padding
SkZeroSb ==
    [magic |-> <<0, 0, 0, 0, 0, 0, 0, 0>>, version |-> 0, block_size |-> 0,
     num_blocks |-> 0, num_inodes |-> 0, num_free_blocks |-> 0, num_free_inodes |-> 0,
     inode_bitmap_block |-> 0, data_bitmap_block |-> 0, inode_table_block |-> 0,
     data_block_start |-> 0, checksum |-> <<0, 0, 0, 0>>]

\* the 4092 bytes of the superblock block that precede its checksum
SkSbBytes(sb) ==
    sb.magic \o LE(sb.version, 4) \o LE(sb.block_size, 4)
    \o LE(sb.num_blocks, 4) \o LE(sb.num_inodes, 4)
    \o LE(sb.num_free_blocks, 4) \o LE(sb.num_free_inodes, 4)
    \o LE(sb.inode_bitmap_block, 4) \o LE(sb.data_bitmap_block, 4)
    \o LE(sb.inode_table_block, 4) \o LE(sb.data_block_start, 4)
    \o Zeros(4044)

\* the skeleton's superblock_crc_finalize: crc32 over BS - 4 bytes
SkSuperblockCrcFinalize(sb) == [sb EXCEPT !.checksum = crc32[SkSbBytes(sb)]]

\* the skeleton's inode_t with every field zero
SkZeroInode ==
    [mode |-> 0, uid |-> 0, gid |-> 0, size |-> 0, atime |-> 0, mtime |-> 0, ctime |-> 0,
     links_count |-> 0, blocks |-> 0, direct_blocks |-> [d \in 1..12 |-> 0],
     inode_crc |-> <<0, 0, 0, 0>>]

\* the first 120 bytes of the skeleton's packed inode_t
SkInodeBytes(ino) ==
    LE(ino.mode, 2) \o LE(ino.uid, 2) \o LE(ino.gid, 2) \o LE(ino.size, 4)
    \o LE(ino.atime, 8) \o LE(ino.mtime, 8) \o LE(ino.ctime, 8)
    \o LE(ino.links_count, 2) \o LE(ino.blocks, 4)
    \o [k \in 1..48 |-> LE(ino.direct_blocks[((k - 1) \div 4) + 1], 4)[((k - 1) % 4) + 1]]
    \o Zeros(4 + 4 + 24)

\* the skeleton's inode_crc_finalize
SkInodeCrcFinalize(ino) == [ino EXCEPT !.inode_crc = crc32[SkInodeBytes(ino)]]

\* A block of a skeleton image: the directory entries a whole-block write
\* of a directory left in it, or the chunks of source files written at its
\* start, newest first (a chunk is listed as long as a later, shorter one
\* leaves its end visible).
SkZeroBlock == [layers |-> <<>>, ents |-> <<>>]

\* A skeleton image file of size bytes
SkNoFile ==
    [present |-> FALSE, size |-> 0, sb |-> SkZeroSb, ibmap |-> {}, dbmap |-> {},
     itbl |-> <<>>, blocks |-> <<>>]

SkItblAt(img, i) == IF i \in DOMAIN img.itbl THEN img.itbl[i] ELSE SkZeroInode
SkBlockAt(img, b) == IF b \in DOMAIN img.blocks THEN img.blocks[b] ELSE SkZeroBlock

Max(a, b) == IF a >= b THEN a ELSE b

\* mkfs_builder_skeleton's main up to the last fwrite: the image it writes
\* at time now
SkBuildImage(now) ==
    LET inode_table_blocks ==
            (SK_NUM_INODES * INODE_SIZE) \div BS
            + (IF (SK_NUM_INODES * INODE_SIZE) % BS # 0 THEN 1 ELSE 0)
        sb0 == [SkZeroSb EXCEPT
                   !.magic = SUPERBLOCK_MAGIC, !.version = 1, !.block_size = BS,
                   !.num_blocks = SK_NUM_BLOCKS, !.num_inodes = SK_NUM_INODES,
                   !.inode_bitmap_block = 1, !.data_bitmap_block = 1 + 1,
                   !.inode_table_block = 1 + 1 + 1,
                   !.data_block_start = 1 + 1 + 1 + inode_table_blocks]
        sb == SkSuperblockCrcFinalize(
                  [sb0 EXCEPT !.num_free_blocks = SK_NUM_BLOCKS - sb0.data_block_start,
                              !.num_free_inodes = SK_NUM_INODES - 1])
        root == SkInodeCrcFinalize(
                  [SkZeroInode EXCEPT
                      !.mode = SK_MODE_DIR, !.uid = 0, !.gid = 0, !.size = BS,
                      !.atime = now, !.mtime = now, !.ctime = now,
                      !.links_count = 2, !.blocks = 1,
                      !.direct_blocks[1] = sb.data_block_start])
        dot == dirent_checksum_finalize(
                  [ZeroDirent EXCEPT !.inode_no = ROOT_INO, !.type = 2, !.name = <<46>>])
        dotdot == dirent_checksum_finalize(
                  [ZeroDirent EXCEPT !.inode_no = ROOT_INO, !.type = 2, !.name = <<46, 46>>])
    IN  [present |-> TRUE,
         size |-> (sb.data_block_start + 1) * BS,
         sb |-> sb,
         ibmap |-> {0, 1},
         dbmap |-> {0},
         itbl |-> Put(<<>>, ROOT_INO, root),
         blocks |-> Put(<<>>, sb.data_block_start,
                        [SkZeroBlock EXCEPT !.ents = Put(Put(<<>>, 0, dot), 1, dotdot)])]

\* find_free_inode / find_free_block: the lowest index below n whose bit is
\* clear in bitmap, -1 when there is none
find_free_inode(bitmap, n) ==
    IF \A i \in 0..(n - 1) : i \in bitmap THEN -1
    ELSE SetMin({i \in 0..(n - 1) : i \notin bitmap})

find_free_block(bitmap, n) ==
    IF \A i \in 0..(n - 1) : i \in bitmap THEN -1
    ELSE SetMin({i \in 0..(n - 1) : i \notin bitmap})

\* fseek(fp_img, b * BS) and fwrite of n bytes of source src from offset off
SkWriteChunk(img, b, src, off, n) ==
    LET old == SkBlockAt(img, b)
        rest == SelectSeq(old.layers, LAMBDA l : l.n > n)
    IN  [img EXCEPT
            !.blocks = Put(@, b, [old EXCEPT
                           !.layers = <<[src |-> src, off |-> off, n |-> n]>> \o rest]),
            !.size = Max(@, b * BS + n)]

\* The allocation loop of mkfs_adder_skeleton for a file of need blocks:
\* block after block, the lowest clear bit of the bitmap read from the image
\* is set in memory and the block's bytes are written to the image.  The
\* result is the image on disk, the blocks taken and whether all were found.
SkAllocate(img, src, need) ==
    LET free == {i \in 0..(img.sb.num_blocks - 1) : i \notin img.dbmap}
        found == IF Cardinality(free) >= need THEN need ELSE Cardinality(free)
        len(i) == IF i = need - 1
                  THEN (IF src.size % BS = 0 THEN BS ELSE src.size % BS)
                  ELSE BS
        \* after k rounds that found a block: the image, the bitmap in
        \* memory and the blocks taken
        Round[k \in 0..12] ==
            IF k = 0
            THEN [img |-> img, bitmap |-> img.dbmap, allocated_blocks |-> <<>>]
            ELSE LET before == Round[k - 1]
                     free_block_idx == find_free_block(before.bitmap, img.sb.num_blocks)
                     blk == img.sb.data_block_start + free_block_idx
                 IN  [img |-> SkWriteChunk(before.img, blk, src.id, (k - 1) * BS, len(k - 1)),
                      bitmap |-> before.bitmap \cup {free_block_idx},
                      allocated_blocks |-> Append(before.allocated_blocks, blk)]
        end == Round[found]
    IN  [img |-> end.img,
         allocated_blocks |-> end.allocated_blocks,
         bitmap |-> end.bitmap,
         complete |-> found = need]

\* the name strncpy(name, path, 57) leaves in a zeroed entry
SkName(path) == IF Len(path) > NAME_MAX - 1 THEN SubSeq(path, 1, NAME_MAX - 1) ELSE path

\* what a run of mkfs_adder_skeleton leaves: its exit code (139 for a run
\* killed by a signal) and diagnostic, the inode it took and the image file
SkOutcome(rc, err, ino, img) == [rc |-> rc, err |-> err, ino |-> ino, img |-> img]

\* the block number a read of root_inode->direct_blocks[0] can deliver after
\* free(inode_table) when it does not deliver the value that was there
SK_STRAY_BLOCK == 2048

\* mkfs_adder_skeleton's main on the image file f with the source src at
\* time now: the set of its outcomes.  readable tells whether fopen of the
\* source succeeds.
SkAdderMain(f, src, readable, now) ==
    IF ~f.present
    THEN {SkOutcome(1, "fopen image_file", 0, f)}
    ELSE IF ~readable
    THEN {SkOutcome(1, "fopen file_to_add", 0, f)}
    ELSE
    LET sb == f.sb
        need == (src.size + BS - 1) \div BS
        free_inode_idx == find_free_inode(f.ibmap, sb.num_inodes)
        alloc == SkAllocate(f, src, need)
        disk1 == alloc.img
        \* the inode table buffer holds inode_table_block * BS bytes
        in_buffer == (free_inode_idx + 1) * INODE_SIZE <= sb.inode_table_block * BS
        new_inode ==
            SkInodeCrcFinalize(
                [SkItblAt(f, free_inode_idx) EXCEPT
                    !.mode = SK_MODE_FILE, !.uid = 0, !.gid = 0, !.size = src.size,
                    !.atime = now, !.mtime = now, !.ctime = now,
                    !.links_count = 1, !.blocks = need,
                    !.direct_blocks = [d \in 1..12 |->
                        IF d <= need THEN alloc.allocated_blocks[d] ELSE @[d]]])
        root_inode == SkItblAt(f, ROOT_INO)
        root_blk == root_inode.direct_blocks[1]
        root_dir == SkBlockAt(f, root_blk)
        empty == {i \in 0..(BS \div DIRENT_SIZE - 1) :
                     i \notin DOMAIN root_dir.ents \/ root_dir.ents[i].inode_no = 0}
        slot == SetMin(empty)
        entry == dirent_checksum_finalize(
                     [ZeroDirent EXCEPT !.inode_no = free_inode_idx, !.type = 1,
                                        !.name = SkName(src.path)])
        new_dir == [root_dir EXCEPT !.ents = Put(@, slot, entry)]
        new_sb == SkSuperblockCrcFinalize(
                     [sb EXCEPT !.num_free_inodes = @ - 1,
                                !.num_free_blocks = @ - need])
        \* the image after the writes of the superblock, the bitmaps and the
        \* inode table
        disk2 == [disk1 EXCEPT
                     !.sb = new_sb,
                     !.ibmap = f.ibmap \cup {free_inode_idx},
                     !.dbmap = alloc.bitmap,
                     !.itbl = Put(IF in_buffer THEN Put(@, free_inode_idx, new_inode) ELSE @,
                                  ROOT_INO,
                                  SkInodeCrcFinalize([root_inode EXCEPT !.mtime = now]))]
        DirAt(b) == [disk2 EXCEPT !.blocks = Put(@, b, new_dir),
                                  !.size = Max(@, (b + 1) * BS)]
        rest ==
            IF sb.magic # SUPERBLOCK_MAGIC
            THEN {SkOutcome(1, "Invalid filesystem magic number", 0, f)}
            ELSE IF need > 12
            THEN {SkOutcome(1, "File too large for direct blocks only", 0, f)}
            ELSE IF free_inode_idx = -1
            THEN {SkOutcome(1, "No free inodes available", 0, f)}
            ELSE IF ~alloc.complete
            THEN {SkOutcome(1, "Not enough free data blocks", 0, disk1)}
            ELSE IF empty = {}
            THEN {SkOutcome(1, "No space in root directory for new file", 0, disk1)}
                 \* a write to inode_table[free_inode_idx] outside the buffer
                 \* may have killed the run before the message
                 \cup (IF in_buffer THEN {} ELSE {SkOutcome(139, "killed", 0, disk1)})
            ELSE \* line 294 reads root_inode->direct_blocks[0] from the
                 \* freed inode table: the value that was there, another
                 \* block number, or the run is killed
                 {SkOutcome(0, "", free_inode_idx, DirAt(root_blk)),
                  SkOutcome(0, "stray", free_inode_idx, DirAt(SK_STRAY_BLOCK)),
                  SkOutcome(139, "killed", free_inode_idx, disk2)}
                 \cup (IF in_buffer THEN {} ELSE {SkOutcome(139, "killed", 0, disk1)})
    IN  \* malloc(0) for an empty source may return NULL
        (IF src.size = 0
         THEN {SkOutcome(1, "Failed to allocate memory for file content", 0, f)}
         ELSE {})
        \cup rest

\* The sources offered to mkfs_adder_skeleton, in this order; the last one
\* is offered over and over.
SkWorkload ==
    << [id |-> 1, path |-> <<110, 111, 116, 101, 115>>, size |-> 5000],
       [id |-> 2, path |-> <<104, 117, 103, 101>>, size |-> 12 * BS + 1],
       [id |-> 3, path |-> <<97>>, size |-> 12 * BS],
       [id |-> 4, path |-> <<101>>, size |-> 0],
       [id |-> 5, path |-> <<122>>, size |-> 100] >>

\* mkfs_builder_skeleton a.img
SkFormat ==
    /\ last.op = "none"
    /\ UNCHANGED <<clock, cursor>>
    /\ \/ /\ last' = Run("skel_format", <<>>, 1, "fopen", 0)
          /\ UNCHANGED disk
       \/ /\ last' = Run("skel_format", <<>>, 0, "", 0)
          /\ disk' = [disk EXCEPT ![IMG] = SkBuildImage(clock)]

\* a second passes after mkfs_builder_skeleton
SkTick ==
    /\ last.op = "skel_format"
    /\ clock < T0 + MaxTick
    /\ clock' = clock + 1
    /\ last' = Run("skel_tick", <<>>, 0, "", 0)
    /\ UNCHANGED <<disk, cursor>>

\* The image comes back from earlier use with one data block left: every
\* bit of the data bitmap is set but the one of index SK_LAST_FREE.
SK_LAST_FREE == 5

SkFill ==
    /\ last.op = "skel_format" /\ last.rc = 0
    /\ disk' = [disk EXCEPT ![IMG] =
                    [disk[IMG] EXCEPT
                        !.dbmap = (0..(disk[IMG].sb.num_blocks - 1)) \ {SK_LAST_FREE},
                        !.sb = SkSuperblockCrcFinalize(
                                  [disk[IMG].sb EXCEPT !.num_free_blocks = 1])]]
    /\ last' = Run("skel_fill", <<>>, 0, "", 0)
    /\ UNCHANGED <<clock, cursor>>

\* mkfs_adder_skeleton a.img SkWorkload[j].path.  A run that was killed or
\* wrote the directory elsewhere ends the session.
SkAddFile(j, readable) ==
    /\ last.op # "none"
    /\ last.err \notin {"killed", "stray"}
    /\ j = (IF cursor < Len(SkWorkload) THEN cursor + 1 ELSE cursor)
    /\ UNCHANGED clock
    /\ \E o \in SkAdderMain(disk[IMG], SkWorkload[j], readable, clock) :
          /\ last' = Run("skel_add", <<j>>, o.rc, o.err, o.ino)
          /\ disk' = [disk EXCEPT ![IMG] = o.img]
          /\ cursor' = IF o.err = "fopen file_to_add" THEN cursor ELSE j

NextSkeleton ==
    \/ SkFormat
    \/ SkTick
    \/ SkFill
    \/ \E j \in 1..Len(SkWorkload), readable \in BOOLEAN : SkAddFile(j, readable)

SpecSkeleton == Init /\ [][NextSkeleton]_vars

\* ------------------------------------------------------------------------
\* Properties
\* ------------------------------------------------------------------------
\* the image a successful run has just written, and where
Produced == last.rc = 0 /\ last.op \in {"format", "add"}
ProducedPath == IF last.op = "add" THEN last.args[2] ELSE IMG
ProducedImg == disk[ProducedPath]

RootOf(img) == ItblAt(img, 0)

\* the occupied entries of the root directory of img
RootEntries(img) ==
    LET root == RootOf(img)
    IN  UNION {{BlockAt(img, root.direct[d]).ents[i] :
                    i \in {k \in DOMAIN BlockAt(img, root.direct[d]).ents :
                             BlockAt(img, root.direct[d]).ents[k].inode_no # 0}} :
               d \in {e \in 1..12 : root.direct[e] # 0}}

\* the inode of entry i (0-based) of the block blk, read from its bytes
EntryInodeNo(blk, i) ==
    BlockByte(blk, i * 64) + 256 * BlockByte(blk, i * 64 + 1)
    + 65536 * BlockByte(blk, i * 64 + 2) + 16777216 * BlockByte(blk, i * 64 + 3)

\* the name of entry i of blk, up to its first zero byte
EntryName(blk, i) ==
    LET z == {n \in 0..57 : BlockByte(blk, i * 64 + 5 + n) = 0}
        len == IF z = {} THEN 58 ELSE CHOOSE n \in z : \A m \in z : n <= m
    IN  [n \in 1..len |-> BlockByte(blk, i * 64 + 4 + n)]

\* f passes the adder's validation of its input, and src is a regular file
ValidInput(f) ==
    /\ f.present /\ f.tail = 0 /\ f.nblocks >= 1
    /\ f.sb.magic = 1297503046 /\ f.sb.version = 1 /\ f.sb.block_size = 4096
    /\ f.sb.total_blocks = f.nblocks

\* the source of the last mkfs_adder run, and of the one a step makes
LastSrc == Workload[last.args[1]]
StepSrc == Workload[last'.args[1]]

\* C1 (as amended): a run of mkfs_adder that returns an error other than a
\* short write of the output image leaves both image files as they were:
\* the input is unchanged and no output has been written.
C1_ErrorLeavesFilesAlone ==
    [][(last'.op = "add" /\ last'.rc # 0 /\ last'.err # "Short write on output image")
          => disk' = disk]_vars

\* C1 (as stated): whenever mkfs_adder returns an error, for any reason, the
\* input image is unchanged and no output image has been written.
C1_AnyErrorLeavesFilesAlone ==
    [][(last'.op = "add" /\ last'.rc # 0) => disk' = disk]_vars

\* C1 witness: a run failed for lack of data blocks on an image that
\* already holds files
C1_Witness ==
    /\ last.op = "add" /\ last.rc = 6 /\ last.err = "Not enough free data blocks"
    /\ Cardinality(disk[IMG].ibmap) > 2

\* C2: a run of mkfs_adder on an image whose stored superblock checksum
\* differs from the CRC32 recomputed over the superblock block fails with
\* the format error (exit code 3) and writes nothing.  (Stated by
\* contraposition: a run that did anything else had a matching checksum.)
C2_BadChecksumRejected ==
    [][(/\ last'.op = "add"
        /\ disk[IMG].present /\ disk[IMG].tail = 0 /\ disk[IMG].nblocks >= 1
        /\ ~(last'.rc = 3 /\ disk' = disk))
          => disk[IMG].sb.checksum = SuperblockCrc(disk[IMG].sb)]_vars

\* C3: after a successful add of a source of fsize <= 12 * 4096 bytes the
\* new inode's size_bytes is fsize, and the blocks its direct pointers name,
\* in pointer order, hold the source's bytes up to fsize and zeros beyond.
C3_ContentRoundTrip ==
    (last.op = "add" /\ last.rc = 0
        /\ LastSrc.size.hi = 0 /\ LastSrc.size.lo <= 12 * 4096)
    => LET img == ProducedImg
           ino == ItblAt(img, last.ino - 1)
           fsize == LastSrc.size.lo
           nblk == (fsize + 4095) \div 4096
       IN  /\ ino.size_bytes = [hi |-> 0, lo |-> fsize]
           /\ \A d \in 1..nblk : ino.direct[d] # 0
           /\ \A k \in 0..(nblk * 4096 - 1) :
                 BlockByte(BlockAt(img, ino.direct[k \div 4096 + 1]), k % 4096)
                    = IF k < fsize THEN SrcByte(LastSrc.id, k) ELSE 0

\* C3 witness: a 5000-byte source was added; its second block is partly
\* filled
C3_Witness ==
    /\ last.op = "add" /\ last.rc = 0 /\ LastSrc.size = [hi |-> 0, lo |-> 5000]
    /\ ItblAt(ProducedImg, last.ino - 1).direct[2] # 0

\* C4: a successful add allocates one inode index, greater than every index
\* allocated before; every data-block index it allocates is greater than
\* every index allocated before, the file's blocks ascend in pointer order
\* and a block that extends the root comes after them; index 0 of either
\* bitmap is never handed out.
C4_AllocationAscends ==
    [][(last'.op = "add" /\ last'.rc = 0)
          => LET old == disk[IMG]
                 new == disk'[last'.args[2]]
                 ino == ItblAt(new, last'.ino - 1)
                 newI == new.ibmap \ old.ibmap
                 newD == new.dbmap \ old.dbmap
             IN  /\ newI = {last'.ino - 1}
                 /\ \A i \in old.ibmap : i < last'.ino - 1
                 /\ \A a \in newD : \A b \in old.dbmap : b < a
                 /\ 0 \notin newI /\ 0 \notin newD
                 /\ \A d \in 1..11 : ino.direct[d + 1] # 0 => ino.direct[d] < ino.direct[d + 1]
                 /\ \A d \in 1..12 :
                       RootOf(new).direct[d] # RootOf(old).direct[d]
                       => /\ RootOf(new).direct[d] - new.sb.data_region_start \in newD
                          /\ \A e \in 1..12 : ino.direct[e] < RootOf(new).direct[d]]_vars

\* C4 witness: an add of a file with data blocks has extended the root
\* directory
C4_Witness ==
    /\ last.op = "add" /\ last.rc = 0
    /\ RootOf(disk[IMG]).direct[2] # 0
    /\ Cardinality(disk[IMG].dbmap) > 2
    /\ Cardinality(disk[IMG].ibmap) > 64

\* C5: in every image written by a successful format or add, inode-bitmap
\* bit i is set iff i = 0 or a file entry of the root directory names inode
\* i + 1; data-bitmap bit j is set iff block data_region_start + j is a
\* direct pointer of an allocated inode; bit 0 of both bitmaps is set.
C5_BitmapsMatchUse ==
    Produced
    => LET img == ProducedImg
           targets == {e.inode_no - 1 : e \in {x \in RootEntries(img) : x.type = 1}}
           pointed == UNION {{ItblAt(img, i).direct[d] : d \in 1..12} : i \in img.ibmap} \ {0}
       IN  /\ img.ibmap = {0} \cup targets
           /\ img.dbmap = {b - img.sb.data_region_start : b \in pointed}
           /\ 0 \in img.ibmap /\ 0 \in img.dbmap

\* C5 witness: an image with more than 64 inodes in use and a two-block root
C5_Witness ==
    /\ Produced /\ last.op = "add"
    /\ Cardinality(ProducedImg.ibmap) > 64
    /\ RootOf(ProducedImg).direct[2] # 0

\* C6: in every image written by a successful format or add, every
\* allocated inode has size_bytes <= 12 * 4096 and exactly
\* ceil(size_bytes / 4096) non-zero direct pointers, at the lowest positions.
C6_SizeMatchesPointers ==
    Produced
    => \A i \in ProducedImg.ibmap :
          LET ino == ItblAt(ProducedImg, i)
          IN  /\ ino.size_bytes.hi = 0 /\ ino.size_bytes.lo <= 12 * 4096
              /\ \A d \in 1..12 :
                    ino.direct[d] # 0 <=> d <= (ino.size_bytes.lo + 4095) \div 4096

\* C7: on an image that passes validation and a regular source file,
\* mkfs_adder fails with the file-too-large error (exit code 5) iff the
\* source is longer than 12 * 4096 bytes, and on that failure the image
\* files are unchanged.
C7_TooLargeIffOver12Blocks ==
    [][(last'.op = "add" /\ ValidInput(disk[IMG]) /\ StepSrc.kind = "regular")
          => /\ last'.rc = 5 <=> (StepSrc.size.hi > 0 \/ StepSrc.size.lo > 12 * 4096)
             /\ last'.rc = 5 => disk' = disk]_vars

\* C8: a successful format leaves a root inode with links = 2, size_bytes =
\* 128 and direct[0] = data_region_start; the block at direct[0] holds "."
\* in slot 0 and ".." in slot 1, both naming the superblock's root_inode,
\* and every other slot has inode number 0.
C8_FreshRoot ==
    (last.op = "format" /\ last.rc = 0)
    => LET img == disk[IMG]
           root == RootOf(img)
           blk == BlockAt(img, root.direct[1])
       IN  /\ root.links = 2
           /\ root.size_bytes = [hi |-> 0, lo |-> 128]
           /\ root.direct[1] = img.sb.data_region_start
           /\ EntryInodeNo(blk, 0) = img.sb.root_inode /\ EntryName(blk, 0) = <<46>>
           /\ EntryInodeNo(blk, 1) = img.sb.root_inode /\ EntryName(blk, 1) = <<46, 46>>
           /\ img.sb.root_inode # 0
           /\ \A i \in 2..63 : EntryInodeNo(blk, i) = 0

\* C8 witness: 1024 KiB with 128 inodes was formatted
C8_Witness ==
    /\ last.op = "format" /\ last.rc = 0 /\ last.args = <<1024, 128>>
    /\ disk[IMG].present

\* C9: for every accepted (size_kib, inodes) format gets as far as writing
\* the image, and when it succeeds the file has size_kib * 1024 / 4096
\* whole blocks and the superblock's regions tile them in the order
\* superblock [0,1), inode bitmap [1,2), data bitmap [2,3), inode table
\* [3,3+N), data region [3+N, total_blocks), N = ceil(inodes * 128 / 4096);
\* 1024 KiB with 128 inodes gives 256 blocks, N = 4, data from block 7, 249
\* data blocks.
C9_LayoutTiles ==
    (last.op = "format"
        /\ last.args[1] \in 180..4096 /\ last.args[1] % 4 = 0
        /\ last.args[2] \in 128..512)
    => /\ last.rc \in {0, 5, 6}
       /\ last.rc = 0 =>
            LET img == disk[IMG]
                sb == img.sb
                total == (last.args[1] * 1024) \div 4096
                n == (last.args[2] * 128 + 4095) \div 4096
            IN  /\ img.present /\ img.nblocks = total /\ img.tail = 0
                /\ sb.total_blocks = total
                /\ sb.inode_bitmap_start = 1 /\ sb.inode_bitmap_blocks = 1
                /\ sb.data_bitmap_start = 2 /\ sb.data_bitmap_blocks = 1
                /\ sb.inode_table_start = 3 /\ sb.inode_table_blocks = n
                /\ sb.data_region_start = 3 + n
                /\ sb.data_region_blocks = total - (3 + n)
                /\ sb.data_region_blocks >= 1
                /\ last.args = <<1024, 128>>
                     => /\ total = 256 /\ n = 4
                        /\ sb.data_region_start = 7 /\ sb.data_region_blocks = 249

\* C9 witness: a geometry whose inode table ends in a partly used block was
\* formatted
C9_Witness ==
    /\ last.op = "format" /\ last.rc = 0 /\ last.args = <<184, 129>>
    /\ disk[IMG].sb.inode_table_blocks = 5

\* C10 (as stated): the root's link count is 2 in every image written by a
\* successful format or add.
C10_RootLinksFixed == Produced => RootOf(ProducedImg).links = 2

\* C10 (as amended): the root's link count is 2 after format and grows by
\* one with every file added: it is 2 plus the number of file entries of the
\* root directory.
C10_RootLinksCountFiles ==
    Produced
    => RootOf(ProducedImg).links
         = 2 + Cardinality({e \in RootEntries(ProducedImg) : e.type = 1})

\* C10 witness: an image with three files in its root
C10_Witness ==
    /\ Produced /\ last.op = "add"
    /\ Cardinality({e \in RootEntries(ProducedImg) : e.type = 1}) = 3
    /\ RootOf(ProducedImg).links = 5

\* the occupied slots <<d, i>> of the root directory of img, read from the
\* bytes of the blocks its direct pointers name
OccupiedSlots(img) ==
    {di \in {d \in 1..12 : RootOf(img).direct[d] # 0} \X (0..63) :
        EntryInodeNo(BlockAt(img, RootOf(img).direct[di[1]]), di[2]) # 0}

\* C11: each successful add increases the root's size_bytes by exactly 64,
\* and in every image written by a successful format or add the root's
\* size_bytes is 64 times the number of occupied entries in its blocks.
C11_RootSizeCountsEntries ==
    /\ [](Produced
            => RootOf(ProducedImg).size_bytes
                 = [hi |-> 0, lo |-> 64 * Cardinality(OccupiedSlots(ProducedImg))])
    /\ [][(last'.op = "add" /\ last'.rc = 0)
             => RootOf(disk'[last'.args[2]]).size_bytes.lo
                  = RootOf(disk[IMG]).size_bytes.lo + 64]_vars

\* C11 witness: the root holds more entries than one block has slots
C11_Witness ==
    /\ Produced /\ last.op = "add"
    /\ RootOf(ProducedImg).size_bytes.lo > 4096
    /\ RootOf(ProducedImg).direct[2] # 0

\* C12: a run of mkfs_adder on an image of whole blocks whose magic is not
\* 0x4D565346, whose version is not 1 or whose block_size is not 4096 fails
\* with the format error (exit code 3, "Not a MiniVSFS image") and leaves
\* both image files as they were.
C12_ForeignImageRejected ==
    [][(/\ last'.op = "add"
        /\ disk[IMG].present /\ disk[IMG].tail = 0 /\ disk[IMG].nblocks >= 1
        /\ \/ disk[IMG].sb.magic # 1297503046
           \/ disk[IMG].sb.version # 1
           \/ disk[IMG].sb.block_size # 4096)
          => /\ last'.rc = 3 /\ last'.err = "Not a MiniVSFS image"
             /\ disk' = disk]_vars

\* C12 witness: a run was refused on an image whose version is not 1
C12_Witness ==
    /\ last.op = "add" /\ last.rc = 3 /\ last.err = "Not a MiniVSFS image"
    /\ disk[IMG].present /\ disk[IMG].tail = 0 /\ disk[IMG].nblocks >= 1
    /\ disk[IMG].sb.magic = 1297503046 /\ disk[IMG].sb.version = 2

\* C13: a run of mkfs_adder on an image file whose length is not the
\* total_blocks * 4096 its superblock declares (an empty file included)
\* fails, reads nothing outside the buffer it loaded and writes no output.
C13_MalformedLengthRejected ==
    [][(/\ last'.op = "add"
        /\ disk[IMG].present
        /\ \/ disk[IMG].tail # 0
           \/ disk[IMG].nblocks = 0
           \/ disk[IMG].sb.total_blocks # disk[IMG].nblocks)
          => /\ last'.rc # 0
             /\ last'.err # "out of bounds"
             /\ disk' = disk]_vars

\* C14: when the final write of mkfs_builder is short, the run fails and no
\* file is left at the target path.
C14_ShortFormatLeavesNoFile ==
    (last.op = "format" /\ last.err = "Short write")
    => last.rc # 0 /\ ~disk[IMG].present

\* C15 (as stated): mkfs_builder fails with the capacity error (exit code 3)
\* exactly when total_blocks < 1 + 1 + 1 + N + 1, N = ceil(inodes * 128 /
\* 4096), and then it neither creates nor writes the image file.
C15_CapacityErrorIffTooSmall ==
    last.op = "format"
    => LET total == (last.args[1] * 1024) \div 4096
           n == (last.args[2] * 128 + 4095) \div 4096
       IN  /\ last.rc = 3 <=> total < 1 + 1 + 1 + n + 1
           /\ last.rc = 3 => ~disk[IMG].present

\* C15 (as amended): every argument pair with total_blocks < 1 + 1 + 1 + N
\* + 1 is outside the accepted ranges and fails with the usage error (exit
\* code 2) without creating or writing the image file; mkfs_builder never
\* fails with the capacity error.
C15_TooSmallIsRangeError ==
    last.op = "format"
    => LET total == (last.args[1] * 1024) \div 4096
           n == (last.args[2] * 128 + 4095) \div 4096
       IN  /\ total < 1 + 1 + 1 + n + 1 => last.rc = 2 /\ ~disk[IMG].present
           /\ last.rc # 3

\* C15 witness: 16 KiB (4 blocks) with 128 inodes was refused
C15_Witness ==
    /\ last.op = "format" /\ last.args = <<16, 128>> /\ last.rc = 2
    /\ ~disk[IMG].present

\* the 116 bytes of the superblock as they lie in block 0 of img
SbOnDisk(img) == SbBytes(img.sb) \o img.sb.checksum

\* the low 32 bits of the little-endian field at offset o (0-based) of b;
\* of a 64-bit field the upper half is not read, so that re-encoding, which
\* writes it as zero, gives b back only if it was zero
FieldAt(b, o) ==
    b[o + 1] + 256 * b[o + 2] + 65536 * b[o + 3] + 16777216 * b[o + 4]

\* superblock_t read from its 116 bytes
SbDecode(b) ==
    [magic |-> FieldAt(b, 0), version |-> FieldAt(b, 4),
     block_size |-> FieldAt(b, 8), total_blocks |-> FieldAt(b, 12),
     inode_count |-> FieldAt(b, 20),
     inode_bitmap_start |-> FieldAt(b, 28), inode_bitmap_blocks |-> FieldAt(b, 36),
     data_bitmap_start |-> FieldAt(b, 44), data_bitmap_blocks |-> FieldAt(b, 52),
     inode_table_start |-> FieldAt(b, 60), inode_table_blocks |-> FieldAt(b, 68),
     data_region_start |-> FieldAt(b, 76), data_region_blocks |-> FieldAt(b, 84),
     root_inode |-> FieldAt(b, 92), mtime_epoch |-> FieldAt(b, 100),
     flags |-> FieldAt(b, 108), checksum |-> SubSeq(b, 113, 116)]

\* C16: the superblock a successful format wrote decodes and re-encodes to
\* the same 116 bytes, with the fields format was asked for, and its stored
\* checksum is the CRC32 of the first 4092 bytes of block 0 taken with the
\* checksum field zeroed; for 1024 KiB, 128 inodes at time 1700000000 that
\* is 0x008E81A6.
C16_SuperblockRoundTrip ==
    (last.op = "format" /\ last.rc = 0)
    => LET b == SbOnDisk(disk[IMG])
           sb == SbDecode(b)
           block0 == [i \in 1..4096 |-> IF i <= 116 THEN b[i] ELSE 0]
           zeroed == [i \in 1..4092 |-> IF i \in 113..116 THEN 0 ELSE block0[i]]
       IN  /\ Len(b) = 116
           /\ SbBytes(sb) \o sb.checksum = b
           /\ sb = disk[IMG].sb
           /\ sb.magic = 1297503046 /\ sb.inode_count = last.args[2]
           /\ sb.total_blocks * 4 = last.args[1]
           /\ sb.checksum = crc32[zeroed]
           /\ (last.args = <<1024, 128>> /\ sb.mtime_epoch = 1700000000)
                => sb.checksum = <<166, 129, 142, 0>>

\* C16 witness: 1024 KiB with 128 inodes was formatted at time 1700000000
C16_Witness ==
    /\ last.op = "format" /\ last.rc = 0 /\ last.args = <<1024, 128>>
    /\ disk[IMG].sb.mtime_epoch = 1700000000
    /\ disk[IMG].sb.checksum # <<0, 0, 0, 0>>

\* C17: for every image written by a successful format or add, minivsfs_ls
\* succeeds and lists every occupied entry of every block the root's
\* direct pointers name, with its inode number.
C17_InspectorListsAllEntries ==
    Produced
    => LET out == minivsfs_ls(ProducedImg)
           img == ProducedImg
       IN  /\ out.rc = 0
           /\ Cardinality(out.entries) = Cardinality(OccupiedSlots(img))
           /\ \A di \in OccupiedSlots(img) :
                 \E e \in out.entries :
                    e.ino = EntryInodeNo(BlockAt(img, RootOf(img).direct[di[1]]), di[2])

\* the image img as another run of the same calls left it one second
\* later: the inodes' timestamps are one second on and their checksums
\* differ
Twin(img) ==
    [img EXCEPT !.itbl = [i \in DOMAIN img.itbl |->
        [img.itbl[i] EXCEPT !.atime = @ + 1, !.mtime = @ + 1, !.ctime = @ + 1,
                            !.inode_crc = <<255 - @[1], @[2], @[3], @[4]>>]]]

\* img without the inodes' timestamps and checksums
Timeless(img) ==
    [img EXCEPT !.itbl = [i \in DOMAIN img.itbl |->
        [img.itbl[i] EXCEPT !.atime = 0, !.mtime = 0, !.ctime = 0,
                            !.inode_crc = <<0, 0, 0, 0>>]]]

\* C18: the same mkfs_adder call on two images that agree except in the
\* inodes' timestamps and checksums, made at different times, succeeds or
\* fails alike, takes the same inode and writes images that again agree on everything (bitmaps, inode
\* sizes and direct pointers, directory entries, file data) except those
\* timestamps and checksums.
C18_AllocationDeterministic ==
    [][(last'.op = "add" /\ last'.err \notin EnvErrors /\ disk[IMG].present)
          => \A o \in AdderMain(Twin(disk[IMG]), StepSrc,
                                [Smooth EXCEPT !.out = last'.args[2]], clock + 1) :
                /\ o.rc = 0 <=> last'.rc = 0
                /\ o.rc = 0 => o.ino = last'.ino
                /\ o.wrote <=> disk' # disk
                /\ o.wrote => Timeless(o.img) = Timeless(disk'[last'.args[2]])]_vars

\* C18 witness: an add has extended the root directory on an image that
\* already held files with data
C18_Witness ==
    /\ last.op = "add" /\ last.rc = 0
    /\ RootOf(disk[IMG]).direct[2] # 0
    /\ Cardinality(disk[IMG].dbmap) > 14
    /\ Cardinality(DOMAIN disk[IMG].itbl) > 60

\* C19: a successful add never takes inode index 0 or an index beyond the
\* inode count, so that an image of I inodes holds at most I - 1 files; once
\* every inode-bitmap bit in [0, I) is set, an add of a regular source of at
\* most 12 blocks to the (valid) image fails with "No free inodes" and
\* leaves the image files unchanged.
C19_InodeExhaustion ==
    [][last'.op = "add"
          => /\ last'.rc = 0
                => /\ last'.ino - 1 \in 1..(disk[IMG].sb.inode_count - 1)
                   /\ Cardinality(disk'[last'.args[2]].ibmap) <= disk[IMG].sb.inode_count
             /\ (/\ ValidInput(disk[IMG])
                 /\ StepSrc.kind = "regular"
                 /\ StepSrc.size.hi = 0 /\ StepSrc.size.lo <= 12 * 4096
                 /\ \A i \in 0..(disk[IMG].sb.inode_count - 1) : i \in disk[IMG].ibmap)
                => /\ last'.rc = 6 /\ last'.err = "No free inodes"
                   /\ disk' = disk]_vars

\* C19 witness: a run failed for lack of inodes on an image whose 160 inodes
\* are all in use
C19_Witness ==
    /\ last.op = "add" /\ last.rc = 6 /\ last.err = "No free inodes"
    /\ Cardinality(disk[IMG].ibmap) = 160
    /\ disk[IMG].sb.inode_count = 160

\* the free slots <<d, i>> of the root blocks of img that the placement scan
\* visits, read from the blocks' bytes
FreeRootSlots(img) ==
    {di \in {d \in 1..12 : \A e \in 1..d : RootOf(img).direct[e] # 0} \X (0..63) :
        EntryInodeNo(BlockAt(img, RootOf(img).direct[di[1]]), di[2]) = 0}

\* di comes before ej in the scan: earlier block, or same block and lower slot
ScanBefore(di, ej) == di[1] < ej[1] \/ (di[1] = ej[1] /\ di[2] <= ej[2])

\* C20: a successful add puts the new entry in the first free slot of the
\* root's blocks, in pointer order then slot order, and leaves the root's
\* pointers alone; only when no slot is free it takes the lowest free data
\* block (after the file's own), stores it in the root's lowest zero direct
\* pointer and writes the entry in slot 0 of the zeroed block; with no free
\* slot and no zero direct pointer the run fails, and the diagnostic "Root
\* directory has no free direct pointer to extend" is given in that case
\* only, with nothing written.
C20_EntryPlacement ==
    [][(last'.op = "add" /\ disk[IMG].present /\ disk[IMG].tail = 0 /\ disk[IMG].nblocks >= 1)
          => LET old == disk[IMG]
                 new == disk'[last'.args[2]]
                 free == FreeRootSlots(old)
                 zeros == {d \in 1..12 : RootOf(old).direct[d] = 0}
                 full == "Root directory has no free direct pointer to extend"
             IN  /\ (last'.rc = 0 /\ free # {})
                    => LET di == CHOOSE x \in free : \A y \in free : ScanBefore(x, y)
                       IN  /\ RootOf(new).direct = RootOf(old).direct
                           /\ EntryInodeNo(BlockAt(new, RootOf(new).direct[di[1]]), di[2])
                                = last'.ino
                           /\ FreeRootSlots(new) = free \ {di}
                 /\ (last'.rc = 0 /\ free = {})
                    => LET d0 == CHOOSE d \in zeros : \A e \in zeros : d <= e
                           mine == {ItblAt(new, last'.ino - 1).direct[d] : d \in 1..12}
                           avail == {b \in old.sb.data_region_start
                                            ..(old.sb.data_region_start
                                                 + old.sb.data_region_blocks - 1) :
                                        /\ b - old.sb.data_region_start \notin old.dbmap
                                        /\ b \notin mine}
                           blk == BlockAt(new, RootOf(new).direct[d0])
                       IN  /\ zeros # {}
                           /\ RootOf(new).direct[d0] = CHOOSE b \in avail : \A c \in avail : b <= c
                           /\ \A d \in 1..12 : d # d0
                                 => RootOf(new).direct[d] = RootOf(old).direct[d]
                           /\ EntryInodeNo(blk, 0) = last'.ino
                           /\ \A k \in 64..4095 : BlockByte(blk, k) = 0
                 /\ (free = {} /\ zeros = {}) => last'.rc # 0 /\ disk' = disk
                 /\ last'.err = full => free = {} /\ zeros = {} /\ disk' = disk]_vars

\* C20 witness: an add has extended the root directory
C20_Witness ==
    /\ last.op = "add" /\ last.rc = 0
    /\ RootOf(disk[IMG]).direct[2] # 0 /\ RootOf(disk[IMG]).direct[3] = 0
    /\ EntryInodeNo(BlockAt(disk[IMG], RootOf(disk[IMG]).direct[2]), 0) = last.ino

\* the first 120 bytes of the inode ino as they lie in the inode table
StoredInode(ino) ==
    LE(ino.mode, 2) \o LE(ino.links, 2) \o LE(ino.uid, 4) \o LE(ino.gid, 4)
    \o LE64(ino.size_bytes) \o LE(ino.atime, 8) \o LE(ino.mtime, 8) \o LE(ino.ctime, 8)
    \o [k \in 1..48 |-> LE(ino.direct[((k - 1) \div 4) + 1], 4)[((k - 1) % 4) + 1]]
    \o [k \in 1..28 |-> 0]

\* C21: every allocated inode of an image written by a successful format or
\* add stores the CRC32 of its own first 120 bytes: each successful run
\* leaves an allocated inode as it was in the image it started from or
\* stores it with the checksum of its current bytes; the root (size,
\* timestamps, links, new direct pointer) is among the latter after every
\* add.
C21_InodeChecksumsCurrent ==
    [][(last'.op \in {"format", "add"} /\ last'.rc = 0)
          => LET new == disk'[IF last'.op = "add" THEN last'.args[2] ELSE IMG]
                 old == disk[IMG]
             IN  /\ \A i \in new.ibmap :
                       \/ /\ last'.op = "add" /\ i \in old.ibmap
                          /\ ItblAt(new, i) = ItblAt(old, i)
                       \/ /\ Len(StoredInode(ItblAt(new, i))) = 120
                          /\ ItblAt(new, i).inode_crc = crc32[StoredInode(ItblAt(new, i))]
                 /\ last'.op = "add"
                       => /\ ItblAt(new, 0) # ItblAt(old, 0)
                          /\ ItblAt(new, 0).inode_crc = crc32[StoredInode(ItblAt(new, 0))]]_vars

\* C21 witness: an add has registered a second block in the root at a later
\* second than the format, and the root's stored checksum is that of its
\* bytes
C21_Witness ==
    /\ last.op = "add" /\ last.rc = 0
    /\ RootOf(ProducedImg).direct[2] # 0
    /\ RootOf(ProducedImg).size_bytes.lo = 65 * 64
    /\ RootOf(ProducedImg).inode_crc = crc32[StoredInode(RootOf(ProducedImg))]

\* the 64-byte slots of block b in which the images old and new differ
ChangedSlots(old, new, b) ==
    LET o == BlockAt(old, b)
        n == BlockAt(new, b)
        SameRecord(i) ==
            IF i \in DOMAIN o.ents /\ i \in DOMAIN n.ents THEN o.ents[i] = n.ents[i]
            ELSE /\ i \notin DOMAIN o.ents /\ i \notin DOMAIN n.ents
                 /\ <<o.src, o.off, o.n>> = <<n.src, n.off, n.n>>
    IN  {i \in 0..63 :
            /\ ~SameRecord(i)
            /\ \E k \in 0..63 : BlockByte(n, i * 64 + k) # BlockByte(o, i * 64 + k)}

\* C22: a successful add leaves the superblock, the length of the image,
\* every inode other than the root and the new one, and every data block
\* that was allocated before alone, except for one 64-byte slot of one root
\* directory block that was free before; it sets one inode-bitmap bit and
\* the data-bitmap bits of the blocks the new inode and the root newly
\* point to, and clears none.
C22_AddFrame ==
    [][(last'.op = "add" /\ last'.rc = 0)
          => LET old == disk[IMG]
                 new == disk'[last'.args[2]]
                 idx == last'.ino - 1
                 start == old.sb.data_region_start
                 rootblks(img) == {RootOf(img).direct[d] : d \in 1..12} \ {0}
                 fresh == ({ItblAt(new, idx).direct[d] : d \in 1..12} \ {0})
                          \cup (rootblks(new) \ rootblks(old))
                 touched == {b \in DOMAIN old.blocks \cup DOMAIN new.blocks :
                                BlockAt(new, b) # BlockAt(old, b)}
                 kept == {b \in touched : b - start \in old.dbmap}
             IN  /\ new.sb = old.sb
                 /\ new.nblocks = old.nblocks /\ new.tail = old.tail
                 /\ idx \notin old.ibmap /\ idx # 0
                 /\ new.ibmap = old.ibmap \cup {idx}
                 /\ new.dbmap = old.dbmap \cup {b - start : b \in fresh}
                 /\ \A b \in fresh : b - start \notin old.dbmap
                 /\ \A i \in (DOMAIN old.itbl \cup DOMAIN new.itbl) \ {0, idx} :
                       ItblAt(new, i) = ItblAt(old, i)
                 /\ touched \subseteq fresh \cup rootblks(old)
                 /\ Cardinality(kept) <= 1
                 /\ \A b \in kept :
                       /\ b \in rootblks(old)
                       /\ Cardinality(ChangedSlots(old, new, b)) = 1
                       /\ \A i \in ChangedSlots(old, new, b) :
                             EntryInodeNo(BlockAt(old, b), i) = 0
                 /\ \A b \in rootblks(old) : \A i \in 0..63 :
                       EntryInodeNo(BlockAt(old, b), i) # 0
                          => EntryInodeNo(BlockAt(new, b), i) = EntryInodeNo(BlockAt(old, b), i)]_vars

\* C22 witness: a file with data was added, to the second output path, to
\* an image that already held a file with data
C22_Witness ==
    /\ last.op = "add" /\ last.rc = 0 /\ last.args[2] = OUT
    /\ disk[IMG].present /\ disk[OUT].present
    /\ Cardinality(disk[IMG].dbmap) >= 3
    /\ Cardinality(disk[OUT].dbmap) >= Cardinality(disk[IMG].dbmap) + 12
    /\ BlockAt(disk[OUT], disk[IMG].sb.data_region_start + 1)
         = BlockAt(disk[IMG], disk[IMG].sb.data_region_start + 1)

\* the non-zero direct pointers of the allocated inodes of img, as <<inode
\* index, pointer position>> pairs
Pointers(img) ==
    {p \in img.ibmap \X (1..12) : ItblAt(img, p[1]).direct[p[2]] # 0}

\* C23: in every image written by a successful format or add, every
\* non-zero direct pointer of an allocated inode lies in [data_region_start,
\* total_blocks), and no two pointers, of one inode or of two, name the same
\* block.
C23_PointersDisjoint ==
    Produced
    => LET img == ProducedImg
           blockOf(p) == ItblAt(img, p[1]).direct[p[2]]
       IN  /\ \A p \in Pointers(img) :
                 /\ blockOf(p) >= img.sb.data_region_start
                 /\ blockOf(p) < img.sb.total_blocks
           /\ Cardinality({blockOf(p) : p \in Pointers(img)}) = Cardinality(Pointers(img))

\* C23 witness: the root has two blocks and three files have data
C23_Witness ==
    /\ Produced /\ last.op = "add"
    /\ RootOf(ProducedImg).direct[2] # 0
    /\ Cardinality({p[1] : p \in Pointers(ProducedImg)}) >= 4
    /\ Cardinality(Pointers(ProducedImg)) >= 28

\* C24: on images that come from mkfs_builder and runs of mkfs_adder alone,
\* no run ends with "Root directory has no free direct pointer to extend",
\* and the root of an image with I inodes uses at most ceil((I + 1) / 64)
\* of its direct pointers, which is at most 9 for every accepted I; the
\* runs that fail for lack of inodes find the root within that bound.
C24_InodesRunOutFirst ==
    /\ last.err # "Root directory has no free direct pointer to extend"
    /\ \A n \in 128..512 : (n + 1 + 63) \div 64 <= 9
    /\ (disk[IMG].present /\ (Produced \/ last.err = "No free inodes"))
          => LET img == IF Produced THEN ProducedImg ELSE disk[IMG]
                 used == {d \in 1..12 : RootOf(img).direct[d] # 0}
             IN  /\ img.sb.inode_count \in 128..512
                 /\ Cardinality(used) <= (img.sb.inode_count + 1 + 63) \div 64
                 /\ Cardinality(used) <= 9

\* C24 witness: a run failed for lack of inodes on an image of 160 inodes
\* whose root uses ceil(161 / 64) = 3 direct pointers
C24_Witness ==
    /\ last.op = "add" /\ last.err = "No free inodes"
    /\ disk[IMG].sb.inode_count = 160
    /\ RootOf(disk[IMG]).direct[3] # 0 /\ RootOf(disk[IMG]).direct[4] = 0

\* C25: mkfs_builder gets past its bounds check exactly for size_kib in
\* 180..4096, a multiple of 4, and inodes in 128..512; for those pairs
\* total_blocks is in 45..1024, the inode table has N in 4..16 blocks, the
\* run never ends with the capacity error, and the superblock it writes has
\* data_region_blocks = total_blocks - 3 - N >= 1 with inode_count and
\* data_region_blocks at most 32768, the bits of one bitmap block.
C25_AcceptedGeometry ==
    last.op = "format"
    => LET size_kib == last.args[1]
           inodes == last.args[2]
           total == (size_kib * 1024) \div 4096
           n == (inodes * 128 + 4095) \div 4096
           sb == disk[IMG].sb
       IN  /\ last.rc # 2 <=> /\ size_kib \in 180..4096 /\ size_kib % 4 = 0
                              /\ inodes \in 128..512
           /\ last.rc # 2
                 => /\ total \in 45..1024 /\ n \in 4..16
                    /\ total - 3 - n >= 1
                    /\ last.rc # 3
           /\ last.rc = 0
                 => /\ sb.total_blocks = total /\ sb.inode_table_blocks = n
                    /\ sb.inode_count = inodes
                    /\ sb.data_region_blocks = total - 3 - n
                    /\ sb.data_region_blocks >= 1
                    /\ sb.inode_count <= 4096 * 8 /\ sb.data_region_blocks <= 4096 * 8
                    /\ sb.inode_bitmap_blocks = 1 /\ sb.data_bitmap_blocks = 1

\* C25 witness: the largest accepted pair was formatted: 1024 blocks, a
\* 16-block inode table
C25_Witness ==
    /\ last.op = "format" /\ last.rc = 0 /\ last.args = <<4096, 512>>
    /\ disk[IMG].sb.total_blocks = 1024 /\ disk[IMG].sb.inode_table_blocks = 16
    /\ disk[IMG].sb.data_region_blocks = 1005

\* C26 (as stated): a run of mkfs_adder on a valid image with a zero-length
\* regular source, in which the output can be written, succeeds whenever an
\* inode is free: it allocates one inode with size_bytes = 0 and all twelve
\* direct pointers 0, links one directory entry to it, and sets no
\* data-bitmap bit other than that of a block the root is extended with
\* when its blocks are full.
C26_EmptyFileAdded ==
    [][(/\ last'.op = "add"
        /\ ValidInput(disk[IMG])
        /\ StepSrc.kind = "regular" /\ StepSrc.size = [hi |-> 0, lo |-> 0]
        /\ last'.err \notin {"fopen output", "Short write on output image"}
        /\ \E i \in 0..(disk[IMG].sb.inode_count - 1) : i \notin disk[IMG].ibmap)
          => LET old == disk[IMG]
                 new == disk'[last'.args[2]]
                 ino == ItblAt(new, last'.ino - 1)
                 grown == {RootOf(new).direct[d] : d \in 1..12}
                          \ {RootOf(old).direct[d] : d \in 1..12}
             IN  /\ last'.rc = 0
                 /\ new.ibmap = old.ibmap \cup {last'.ino - 1}
                 /\ last'.ino - 1 \notin old.ibmap
                 /\ ino.size_bytes = [hi |-> 0, lo |-> 0]
                 /\ \A d \in 1..12 : ino.direct[d] = 0
                 /\ Cardinality(OccupiedSlots(new)) = Cardinality(OccupiedSlots(old)) + 1
                 /\ \E di \in OccupiedSlots(new) \ OccupiedSlots(old) :
                       EntryInodeNo(BlockAt(new, RootOf(new).direct[di[1]]), di[2]) = last'.ino
                 /\ new.dbmap = old.dbmap
                                  \cup {b - old.sb.data_region_start : b \in grown}
                 /\ grown # {} => FreeRootSlots(old) = {}]_vars

\* C26 (as amended): a run of mkfs_adder on a valid image with a zero-length
\* regular source, in which the output can be written, succeeds whenever an
\* inode is free and the root directory can take an entry (a slot of its
\* blocks is free, or it has a zero direct pointer and a data block is
\* free): it allocates one inode with size_bytes = 0 and all twelve direct
\* pointers 0, links one directory entry to it, and sets no data-bitmap bit
\* other than that of the block the root is extended with when its blocks
\* are full.  When an inode is free but the root cannot take an entry the
\* run fails with exit code 7 and writes nothing.
C26_EmptyFileAddedIfRootHasRoom ==
    [][(/\ last'.op = "add"
        /\ ValidInput(disk[IMG])
        /\ StepSrc.kind = "regular" /\ StepSrc.size = [hi |-> 0, lo |-> 0]
        /\ last'.err \notin {"fopen output", "Short write on output image"}
        /\ \E i \in 0..(disk[IMG].sb.inode_count - 1) : i \notin disk[IMG].ibmap)
          => LET old == disk[IMG]
                 new == disk'[last'.args[2]]
                 ino == ItblAt(new, last'.ino - 1)
                 grown == {RootOf(new).direct[d] : d \in 1..12}
                          \ {RootOf(old).direct[d] : d \in 1..12}
                 room == \/ FreeRootSlots(old) # {}
                         \/ /\ \E d \in 1..12 : RootOf(old).direct[d] = 0
                            /\ \E b \in 0..(old.sb.data_region_blocks - 1) : b \notin old.dbmap
             IN  /\ ~room => last'.rc = 7 /\ disk' = disk
                 /\ room
                    => /\ last'.rc = 0
                       /\ new.ibmap = old.ibmap \cup {last'.ino - 1}
                       /\ last'.ino - 1 \notin old.ibmap
                       /\ ino.size_bytes = [hi |-> 0, lo |-> 0]
                       /\ \A d \in 1..12 : ino.direct[d] = 0
                       /\ Cardinality(OccupiedSlots(new)) = Cardinality(OccupiedSlots(old)) + 1
                       /\ \E di \in OccupiedSlots(new) \ OccupiedSlots(old) :
                             EntryInodeNo(BlockAt(new, RootOf(new).direct[di[1]]), di[2])
                               = last'.ino
                       /\ new.dbmap = old.dbmap
                                        \cup {b - old.sb.data_region_start : b \in grown}
                       /\ grown # {} => FreeRootSlots(old) = {}]_vars

\* C26 witness: an empty file was added and the root was extended for its
\* entry
C26_Witness ==
    /\ last.op = "add" /\ last.rc = 0
    /\ LastSrc.kind = "regular" /\ LastSrc.size = [hi |-> 0, lo |-> 0]
    /\ ItblAt(disk[IMG], last.ino - 1).size_bytes = [hi |-> 0, lo |-> 0]
    /\ RootOf(disk[IMG]).direct[2] # 0 /\ RootOf(disk[IMG]).direct[3] = 0
    /\ EntryInodeNo(BlockAt(disk[IMG], RootOf(disk[IMG]).direct[2]), 0) = last.ino
    /\ Cardinality(disk[IMG].dbmap) = 2

\* C27: a run of mkfs_adder_skeleton that fails because the allocation loop
\* finds no free block for a block of the file, or because the root
\* directory block has no free entry, leaves the image file byte for byte
\* as it was.
C27_SkeletonFailureLeavesImage ==
    [][(/\ last'.op = "skel_add"
        /\ last'.err \in {"Not enough free data blocks",
                          "No space in root directory for new file"})
          => disk'[IMG] = disk[IMG]]_vars

\* C28: after mkfs_builder_skeleton and after every successful run of
\* mkfs_adder_skeleton that follows it, the superblock's num_free_inodes is
\* the number of clear bits of the inode bitmap over [0, num_inodes) and
\* its num_free_blocks the number of clear bits of the data bitmap over
\* [0, num_blocks - data_block_start).
C28_FreeCountersMatchBitmaps ==
    (last.op \in {"skel_format", "skel_add"} /\ last.rc = 0 /\ disk[IMG].present)
    => LET img == disk[IMG]
           sb == img.sb
       IN  /\ sb.num_free_inodes
                = Cardinality({i \in 0..(sb.num_inodes - 1) : i \notin img.ibmap})
           /\ sb.num_free_blocks
                = Cardinality({b \in 0..(sb.num_blocks - sb.data_block_start - 1) :
                                  b \notin img.dbmap})

====
